---- MODULE Spec2Model ----
(***************************************************************************)
(* Model of the request-format normalisation and replay-reconstruction     *)
(* engine of replay_llm_call:                                              *)
(*   src/src/services/llm_parser_service.py     (parser, converters)       *)
(*   src/src/services/llm_execution_service.py  (replay reconstruction)    *)
(*   src/src/services/test_case_service.py      (validate-then-parse)      *)
(*                                                                         *)
(* Python values are modelled as follows.                                  *)
(*   dict            a TLA+ function with a set of strings as its domain;  *)
(*                   "k in d" is  k \in DOMAIN d                           *)
(*   list            a sequence                                            *)
(*   str (content)   a sequence of tokens, so that "\n".join and           *)
(*                   json.dumps build longer strings from shorter ones     *)
(*                   and the empty string is <<>>                          *)
(*   str (name, id, role, model)   a TLA+ string; "" is the empty string   *)
(***************************************************************************)
EXTENDS Integers, Sequences, FiniteSets, TLC

VARIABLES
    gpc,              \* position in _convert_gemini_to_openai_format
    contents,         \* the content entries consumed so far (the input)
    tool_call_state,  \* counter / pending / pending_by_name of the pass
    openai_messages,  \* the conversation-level output list
    cur,              \* locals of _convert_gemini_parts_to_openai_message
    last_ret,         \* (message, extra_messages) of the last call
    ppc,              \* position in create_test_case / parse_llm_raw_data
    raw,              \* the capture handed in
    via,              \* "service": validate, then parse; "direct": parse
    source,           \* what _detect_data_source returned
    canonical,        \* the request body in canonical (OpenAI) form
    exc,              \* the exception in flight inside parse_llm_raw_data
    outcome,          \* what crossed the boundary: a result or an error
    trace,            \* the steps run so far
    replay_messages,  \* what build_replay_messages returned
    spc,              \* "empty": no test case stored yet; "stored"
    test_case,        \* the stored test case
    agent,            \* the owning agent's defaults
    call,             \* the last service call: its request and its result
    rpc,              \* "none": no record yet; "atrest"; "gather"
    record,           \* the stored regression record
    regression,       \* the record object held by execute_regression
    agent_is_deleted, \* the agent row is soft-deleted
    cases,            \* per test case: "queued", "running" or "done"
    semaphore,        \* the value of asyncio.Semaphore(MAX_CONCURRENCY)
    results,          \* the results list of execute_regression
    execution_errors, \* the execution_errors list of execute_regression
    now,              \* the clock read by datetime.now()
    dispatches,       \* the execute_regression calls made so far
    last_dispatch,    \* how the last execute_regression call went
    tpc,              \* "given", "once", "twice": conversions of the schema
    schema,           \* the parameter schema handed in
    once,             \* the schema converted
    twice,            \* the converted schema converted again
    fpc,              \* "parts": in the loop over the parts; "formatted"
    model_response,   \* the parts of the model response consumed so far
    response_content, \* the text collected from the parts
    tool_calls,       \* the tool calls collected from the parts
    formatted_response, \* what execute_llm_test returns
    passes            \* per replay task: its conversion call and its locals

gvars == <<gpc, contents, tool_call_state, openai_messages, cur, last_ret>>

pvars == <<ppc, raw, via, source, canonical, exc, outcome, trace,
           replay_messages>>

svars == <<spc, test_case, agent, call>>

rvars == <<rpc, record, regression, agent_is_deleted, cases, semaphore,
           results, execution_errors, now, dispatches, last_dispatch>>

tvars == <<tpc, schema, once, twice>>

fvars == <<fpc, model_response, response_content, tool_calls,
           formatted_response>>

cvars == <<passes>>

\* the variables of the specifications added after the first three
nvars == <<rvars, tvars, fvars, cvars>>

\* what the regression steps leave alone
notR == <<gvars, pvars, svars, tvars, fvars, cvars>>

\* what the schema conversion leaves alone
notT == <<gvars, pvars, svars, rvars, fvars, cvars>>

\* what the response formatting leaves alone
notF == <<gvars, pvars, svars, rvars, tvars, cvars>>

\* what the concurrent conversion passes leave alone
notC == <<gvars, pvars, svars, rvars, tvars, fvars>>

vars == <<gvars, pvars, svars, nvars>>

(***************************************************************************)
(* Bounds of the model.                                                    *)
(***************************************************************************)
MaxParts == 3      \* parts consumed in one Gemini conversion pass
MaxEntries == 2    \* content entries in one Gemini conversion pass
MaxMessages == 3   \* messages of an OpenAI-format capture
MaxCases == 6      \* test cases of the agent under regression
MaxDispatches == 2 \* execute_regression calls for one record
MaxDepth == 2      \* nesting of a parameter schema
MaxResponseParts == 3 \* parts of a model response

MAX_CONCURRENCY == 5

(***************************************************************************)
(* Python helpers.                                                         *)
(***************************************************************************)
None == "__None__"

EmptyDict == <<>>

Get(d, k, default) == IF k \in DOMAIN d THEN d[k] ELSE default

Put(d, k, v) == [x \in (DOMAIN d) \cup {k} |-> IF x = k THEN v ELSE d[x]]

Pop(d, k) == [x \in (DOMAIN d) \ {k} |-> d[x]]

RECURSIVE Join(_)
\* "\n".join(segments)
Join(segs) ==
    IF Len(segs) = 0 THEN <<>>
    ELSE IF Len(segs) = 1 THEN segs[1]
    ELSE segs[1] \o <<"\n">> \o Join(Tail(segs))

\* list.remove(x): drops the first occurrence (the caller catches ValueError)
RECURSIVE ListRemove(_, _)
ListRemove(q, x) ==
    IF Len(q) = 0 THEN q
    ELSE IF Head(q) = x THEN Tail(q)
    ELSE <<Head(q)>> \o ListRemove(Tail(q), x)

\* str.strip() on the identifiers the model uses
Strip(s) == IF s = " " THEN "" ELSE s

\* isinstance(x, str) and x.strip()
IsUsableId(x) == x /= None /\ Strip(x) /= ""

\* The keys of the parts of unrecognized shape, in serialization order
OtherKeys == <<"inlineData", "fileData">>

RECURSIVE DumpsItems(_, _)
DumpsItems(d, keys) ==
    IF Len(keys) = 0 THEN <<>>
    ELSE (IF Head(keys) \in DOMAIN d THEN <<Head(keys), d[Head(keys)]>> ELSE <<>>)
             \o DumpsItems(d, Tail(keys))

\* json.dumps of a part of unrecognized shape
DumpsPart(part) == <<"{">> \o DumpsItems(part, OtherKeys) \o <<"}">>

\* json.dumps(arguments or {})
DumpsArgs(args) == IF args = None THEN "{}" ELSE args

\* json.dumps({"name": name, "response": response_payload}); the payload is
\* the "response" value, or the whole functionResponse object without one
DumpsResponse(name, function_response) ==
    <<"{name:", name, "response:",
      Get(function_response, "response", "{functionResponse}"), "}">>

(***************************************************************************)
(* _convert_gemini_parts_to_openai_message: one iteration of the loop over *)
(* parts.  c is the record of the function's locals together with the      *)
(* tool_call_state it was handed:                                          *)
(*   [state, text_segments, tool_calls, extra_messages]                    *)
(***************************************************************************)
SynthId(counter) == "tool_call_" \o ToString(counter)

TextStep(c, part) ==
    [c EXCEPT !.text_segments = Append(@, part.text)]

FunctionCallStep(c, part) ==
    LET function_call == part.functionCall
        name == Get(function_call, "name", "")
        args == Get(function_call, "args", Get(function_call, "arguments", None))
        arguments == DumpsArgs(args)
        supplied == Get(function_call, "id", None)
        counter == c.state.counter
        call_id == IF IsUsableId(supplied) THEN Strip(supplied) ELSE SynthId(counter)
        counter2 == IF IsUsableId(supplied) THEN counter ELSE counter + 1
        pending == Put(c.state.pending, call_id, IF name /= "" THEN name ELSE None)
        by_name == c.state.pending_by_name
        by_name2 == IF name /= ""
                    THEN Put(by_name, name, Append(Get(by_name, name, <<>>), call_id))
                    ELSE by_name
    IN  [c EXCEPT
           !.state = [counter |-> counter2, pending |-> pending,
                      pending_by_name |-> by_name2],
           !.tool_calls = Append(@, [id |-> call_id, type |-> "function",
                                     function |-> [name |-> name,
                                                   arguments |-> arguments]])]

\* the id match that forgets the by-name queue
ResolveById_KeepQueue(state, response_id) ==
    [call_id |-> response_id,
     state |-> [state EXCEPT !.pending = Pop(@, response_id)]]

\* lines 382-397: exact id match, consumed from both indexes
ResolveById(state, response_id) ==
    LET pending_name == state.pending[response_id]
        pending == Pop(state.pending, response_id)
        by_name == state.pending_by_name
        name_queue == ListRemove(Get(by_name, pending_name, <<>>), response_id)
        by_name2 == IF pending_name = None THEN by_name
                    ELSE IF Len(name_queue) = 0 THEN Pop(by_name, pending_name)
                    ELSE Put(by_name, pending_name, name_queue)
    IN  [call_id |-> response_id,
         state |-> [state EXCEPT !.pending = pending, !.pending_by_name = by_name2]]

\* the fallback that pops the newest pending id instead of the oldest
ResolveByName_Newest(state, name) ==
    LET by_name == state.pending_by_name
        name_queue == Get(by_name, name, <<>>)
    IN  IF name /= "" /\ Len(name_queue) > 0
        THEN LET call_id == name_queue[Len(name_queue)]
                 rest == SubSeq(name_queue, 1, Len(name_queue) - 1)
             IN  [call_id |-> call_id,
                  state |-> [state EXCEPT
                      !.pending_by_name = IF Len(rest) = 0 THEN Pop(by_name, name)
                                          ELSE Put(by_name, name, rest),
                      !.pending = Pop(@, call_id)]]
        ELSE [call_id |-> None, state |-> state]

\* lines 399-405: oldest pending id queued under the response's name
ResolveByName(state, name) ==
    LET by_name == state.pending_by_name
        name_queue == Get(by_name, name, <<>>)
    IN  IF name /= "" /\ Len(name_queue) > 0
        THEN LET call_id == Head(name_queue)
                 rest == Tail(name_queue)
             IN  [call_id |-> call_id,
                  state |-> [state EXCEPT
                      !.pending_by_name = IF Len(rest) = 0 THEN Pop(by_name, name)
                                          ELSE Put(by_name, name, rest),
                      !.pending = Pop(@, call_id)]]
        ELSE [call_id |-> None, state |-> state]

FunctionResponseStep(c, part) ==
    LET function_response == part.functionResponse
        name == Get(function_response, "name", "")
        content == DumpsResponse(name, function_response)
        response_id == Get(function_response, "id", None)
        resolved == IF IsUsableId(response_id)
                       /\ Strip(response_id) \in DOMAIN c.state.pending
                    THEN ResolveById(c.state, Strip(response_id))
                    ELSE ResolveByName(c.state, name)
        tool_message == IF resolved.call_id /= None
                        THEN [role |-> "tool", content |-> content,
                              tool_call_id |-> resolved.call_id]
                        ELSE [role |-> "tool", content |-> content]
    IN  [c EXCEPT !.state = resolved.state,
                  !.extra_messages = Append(@, tool_message)]

\* the converter that skips a part it does not recognize
OtherStep_Drop(c, part) == c

OtherStep(c, part) ==
    [c EXCEPT !.text_segments = Append(@, DumpsPart(part))]

\* lines 323-418: the branch taken for one part
PartStep(c, part) ==
    IF "text" \in DOMAIN part THEN TextStep(c, part)
    ELSE IF "functionCall" \in DOMAIN part THEN FunctionCallStep(c, part)
    ELSE IF "functionResponse" \in DOMAIN part THEN FunctionResponseStep(c, part)
    ELSE OtherStep(c, part)

\* lines 420-435: the primary message; an Optional[Dict] is a sequence of
\* at most one message, <<>> for None
PrimaryMessage(c, role) ==
    IF Len(c.text_segments) = 0 /\ Len(c.tool_calls) = 0 THEN <<>>
    ELSE LET m1 == IF Len(c.text_segments) > 0
                   THEN [role |-> role, content |-> Join(c.text_segments)]
                   ELSE IF role = "assistant"
                   THEN [role |-> role, content |-> <<>>]
                   ELSE [role |-> role]
         IN  IF Len(c.tool_calls) > 0
             THEN <<Put(m1, "tool_calls", c.tool_calls)>>
             ELSE <<m1>>

\* lines 616-617
MapRole(role) == IF role = "model" THEN "assistant" ELSE role

\* the append that puts the standalone tool messages before the primary one
AppendReturned_ExtrasFirst(messages, message, extra_messages) ==
    messages \o extra_messages \o message

\* lines 622-625
AppendReturned(messages, message, extra_messages) ==
    messages \o message \o extra_messages

(***************************************************************************)
(* The parts and roles a Gemini capture is drawn from.                     *)
(***************************************************************************)
GeminiRoles == {"user", "model"}

TextParts == { [text |-> <<"a">>] }

OtherParts == { [inlineData |-> "img"] }

CallF == [functionCall |-> [name |-> "f"]]
CallG == [functionCall |-> [name |-> "g"]]
CallFWithId == [functionCall |-> [name |-> "f", id |-> "tool_call_1"]]

FunctionCallParts == {CallF, CallG, CallFWithId}

RespF == [functionResponse |-> [name |-> "f", response |-> "ok"]]
RespG == [functionResponse |-> [name |-> "g", response |-> "ok"]]
RespGWithId ==
    [functionResponse |-> [name |-> "g", response |-> "ok", id |-> "tool_call_1"]]

FunctionResponseParts == {RespF, RespG, RespGWithId}

\* The captures of the model: function calls come in "model" entries and in
\* one anomalous shape in "user" entries; text, function responses and parts
\* of unrecognized shape come in "user" entries.
PartsOf(role) ==
    IF role = "model" THEN FunctionCallParts
    ELSE TextParts \cup OtherParts \cup FunctionResponseParts \cup {CallF}

(***************************************************************************)
(* _convert_gemini_to_openai_format as a step machine: the loop over       *)
(* contents (lines 604-625), one action per loop iteration of the callee.  *)
(***************************************************************************)
FreshLocals(state) ==
    [state |-> state, text_segments |-> <<>>, tool_calls |-> <<>>,
     extra_messages |-> <<>>]

\* lines 605-609
FreshToolCallState == [counter |-> 1, pending |-> EmptyDict, pending_by_name |-> EmptyDict]

RECURSIVE CountParts(_)
CountParts(cs) ==
    IF Len(cs) = 0 THEN 0 ELSE Len(Head(cs).parts) + CountParts(Tail(cs))

GInit ==
    /\ gpc = "contents"
    /\ contents = <<>>
    /\ tool_call_state = FreshToolCallState
    /\ openai_messages = <<>>
    /\ cur = FreshLocals(FreshToolCallState)
    /\ last_ret = [message |-> <<>>, extra_messages |-> <<>>]

\* lines 611-620 and 319-321: next content entry, the callee is entered
BeginEntry ==
    /\ gpc = "contents"
    /\ Len(contents) < MaxEntries
    /\ \E role \in GeminiRoles :
          contents' = Append(contents, [role |-> role, parts |-> <<>>])
    /\ cur' = FreshLocals(tool_call_state)
    /\ gpc' = "parts"
    /\ UNCHANGED <<tool_call_state, openai_messages, last_ret,
                   pvars, svars, nvars>>

ConsumePart(part) ==
    /\ gpc = "parts"
    /\ part \in PartsOf(contents[Len(contents)].role)
    /\ CountParts(contents) < MaxParts
    /\ contents' = [contents EXCEPT ![Len(contents)].parts = Append(@, part)]
    /\ cur' = PartStep(cur, part)
    /\ tool_call_state' = cur'.state
    /\ UNCHANGED <<gpc, openai_messages, last_ret,
                   pvars, svars, nvars>>

PartText ==
    /\ gpc = "parts"
    /\ \E part \in TextParts : ConsumePart(part)

PartFunctionCall ==
    /\ gpc = "parts"
    /\ \E part \in FunctionCallParts : ConsumePart(part)

PartFunctionResponse ==
    /\ gpc = "parts"
    /\ \E part \in FunctionResponseParts : ConsumePart(part)

PartOther ==
    /\ gpc = "parts"
    /\ \E part \in OtherParts : ConsumePart(part)

\* lines 420-435 and 619-625: the callee returns, the caller appends
EndEntry ==
    /\ gpc = "parts"
    /\ LET message == PrimaryMessage(cur, MapRole(contents[Len(contents)].role))
       IN  /\ last_ret' = [message |-> message, extra_messages |-> cur.extra_messages]
           /\ openai_messages' = AppendReturned(openai_messages, message,
                                                cur.extra_messages)
    /\ cur' = FreshLocals(tool_call_state)
    /\ gpc' = "contents"
    /\ UNCHANGED <<contents, tool_call_state,
                   pvars, svars, nvars>>

\* line 627: the loop over contents is left
EndContents ==
    /\ gpc = "contents"
    /\ gpc' = "converted"
    /\ UNCHANGED <<contents, tool_call_state, openai_messages, cur, last_ret,
                   pvars, svars, nvars>>

GNext ==
    \/ BeginEntry
    \/ PartText
    \/ PartFunctionCall
    \/ PartFunctionResponse
    \/ PartOther
    \/ EndEntry
    \/ EndContents


(***************************************************************************)
(* JSON values that are not of the type the code expects.  A value that is *)
(* not a list stands where a list of dicts is expected, a value that is    *)
(* not a string where a name is expected, a value that is not a dict where *)
(* the capture is expected.                                                *)
(***************************************************************************)
NotAList == << [json |-> "number"] >>

NotAString == "<number>"

NotADict == [json |-> "list"]

IsList(v) == v /= NotAList

IsStr(v) == v /= NotAString /\ v /= None

IsDict(v) == "json" \notin DOMAIN v

(***************************************************************************)
(* Format detection and validation.                                        *)
(***************************************************************************)
BodyKey == "http.request.body.text"

\* the detection that looks for the HTTP body first
detect_data_source_BodyFirst(raw_data) ==
    LET attributes == Get(raw_data, "attributes", EmptyDict)
    IN  IF BodyKey \in DOMAIN attributes THEN "http_body"
        ELSE IF "gen_ai.input.messages" \in DOMAIN attributes THEN "pydantic_ai"
        ELSE "unknown"

\* _detect_data_source
detect_data_source(raw_data) ==
    LET attributes == Get(raw_data, "attributes", EmptyDict)
    IN  IF "gen_ai.input.messages" \in DOMAIN attributes THEN "pydantic_ai"
        ELSE IF BodyKey \in DOMAIN attributes THEN "http_body"
        ELSE "unknown"

\* the default that takes every other body for an OpenAI body
detect_api_format_Default(request_body) ==
    IF "contents" \in DOMAIN request_body
       \/ "systemInstruction" \in DOMAIN request_body
    THEN "gemini"
    ELSE "openai"

\* _detect_api_format
detect_api_format(request_body) ==
    IF "messages" \in DOMAIN request_body /\ "model" \in DOMAIN request_body
    THEN "openai"
    ELSE IF "contents" \in DOMAIN request_body
            \/ "systemInstruction" \in DOMAIN request_body
    THEN "gemini"
    ELSE "unknown"

OpenAIRoles == {"system", "user", "assistant", "tool"}

\* the validator that does not look at the roles
validate_openai_format_AnyRole(request_body) ==
    LET messages == Get(request_body, "messages", NotAList)
        model == Get(request_body, "model", None)
    IN  /\ IsList(messages) /\ Len(messages) > 0
        /\ IsStr(model) /\ model /= ""
        /\ \A i \in 1..Len(messages) :
              "role" \in DOMAIN messages[i] /\ "content" \in DOMAIN messages[i]

\* _validate_openai_format
validate_openai_format(request_body) ==
    LET messages == Get(request_body, "messages", NotAList)
        model == Get(request_body, "model", None)
    IN  /\ IsList(messages) /\ Len(messages) > 0
        /\ IsStr(model) /\ model /= ""
        /\ \A i \in 1..Len(messages) :
              /\ "role" \in DOMAIN messages[i] /\ "content" \in DOMAIN messages[i]
              /\ messages[i].role \in OpenAIRoles

\* _validate_gemini_format
validate_gemini_format(request_body) ==
    LET has_contents == "contents" \in DOMAIN request_body
                           /\ request_body.contents /= <<>>
        has_system == "systemInstruction" \in DOMAIN request_body
                         /\ DOMAIN request_body.systemInstruction /= {}
    IN  /\ has_contents \/ has_system
        /\ has_contents =>
              /\ IsList(request_body.contents)
              /\ \A i \in 1..Len(request_body.contents) :
                    /\ "parts" \in DOMAIN request_body.contents[i]
                    /\ IsList(request_body.contents[i].parts)
        /\ has_system =>
              /\ "parts" \in DOMAIN request_body.systemInstruction
              /\ IsList(request_body.systemInstruction.parts)

\* _validate_pydantic_ai_format
validate_pydantic_ai_format(attributes) ==
    LET input_messages == Get(attributes, "gen_ai.input.messages", NotAList)
        model == Get(attributes, "gen_ai.request.model", None)
    IN  /\ IsList(input_messages) /\ Len(input_messages) > 0
        /\ IsStr(model) /\ model /= ""
        /\ \A i \in 1..Len(input_messages) :
              /\ "role" \in DOMAIN input_messages[i]
              /\ "parts" \in DOMAIN input_messages[i]
              /\ IsList(input_messages[i].parts)

\* validate_raw_data_format
validate_raw_data_format(raw_data) ==
    /\ IsDict(raw_data)
    /\ "attributes" \in DOMAIN raw_data
    /\ LET attributes == raw_data.attributes
           data_source == detect_data_source(raw_data)
       IN  IF data_source = "pydantic_ai"
           THEN validate_pydantic_ai_format(attributes)
           ELSE IF data_source = "http_body"
           THEN LET request_body == attributes[BodyKey]
                    api_format == detect_api_format(request_body)
                IN  IF api_format = "openai" THEN validate_openai_format(request_body)
                    ELSE IF api_format = "gemini"
                    THEN validate_gemini_format(request_body)
                    ELSE FALSE
           ELSE FALSE

(***************************************************************************)
(* Conversion to the canonical (OpenAI) request body.  A converter returns *)
(* [ok |-> TRUE, body |-> ...] or [ok |-> FALSE, exc |-> <exception>].     *)
(***************************************************************************)
RECURSIVE TextsOf(_)
TextsOf(parts) ==
    IF Len(parts) = 0 THEN <<>>
    ELSE (IF "text" \in DOMAIN Head(parts) THEN <<Head(parts).text>> ELSE <<>>)
             \o TextsOf(Tail(parts))

\* _convert_gemini_parts_to_content
convert_gemini_parts_to_content(parts) == Join(TextsOf(parts))

RECURSIVE ConvertParts(_, _)
\* the loop over parts of _convert_gemini_parts_to_openai_message
ConvertParts(c, parts) ==
    IF Len(parts) = 0 THEN c ELSE ConvertParts(PartStep(c, Head(parts)), Tail(parts))

RECURSIVE ConvertContents(_, _, _)
\* lines 611-625; iterating a value that is not a list raises TypeError
ConvertContents(cs, state, messages) ==
    IF Len(cs) = 0 THEN [ok |-> TRUE, messages |-> messages]
    ELSE LET content == Head(cs)
             role == MapRole(Get(content, "role", "user"))
             parts == Get(content, "parts", <<>>)
         IN  IF ~IsList(parts) THEN [ok |-> FALSE, exc |-> "TypeError"]
             ELSE LET c == ConvertParts(FreshLocals(state), parts)
                  IN  ConvertContents(Tail(cs), c.state,
                          AppendReturned(messages, PrimaryMessage(c, role),
                                         c.extra_messages))

GeminiUrl == "/v1beta/models/gemini-x:generateContent"

\* _extract_model_from_url: the segment after "/models/" up to the colon
extract_model_from_url(raw_data) ==
    LET url_path == Get(Get(raw_data, "attributes", EmptyDict), "http.target", "")
        message == Get(raw_data, "message", "")
    IN  IF url_path = GeminiUrl THEN "gemini-x"
        ELSE IF message = "POST generativelanguage.googleapis.com" \o GeminiUrl
        THEN "gemini-x"
        ELSE "gemini-unknown"

CopyKey(from, key, to, as) ==
    IF key \in DOMAIN from THEN Put(to, as, from[key]) ELSE to

\* _convert_gemini_to_openai_format; any exception leaves as ValueError
convert_gemini_to_openai_format(raw_data) ==
    LET request_body == raw_data.attributes[BodyKey]
        entries == Get(request_body, "contents", <<>>)
        system_instruction == Get(request_body, "systemInstruction", EmptyDict)
        generation_config == Get(request_body, "generationConfig", EmptyDict)
        system_content ==
            IF "parts" \in DOMAIN system_instruction
            THEN convert_gemini_parts_to_content(system_instruction.parts)
            ELSE <<>>
        first == IF system_content /= <<>>
                 THEN << [role |-> "system", content |-> system_content] >>
                 ELSE <<>>
        converted == IF ~IsList(entries) THEN [ok |-> FALSE, exc |-> "TypeError"]
                     ELSE ConvertContents(entries, FreshToolCallState, first)
    IN  IF ~converted.ok THEN [ok |-> FALSE, exc |-> "ValueError"]
        ELSE [ok |-> TRUE,
              body |-> CopyKey(generation_config, "topP",
                         CopyKey(generation_config, "maxOutputTokens",
                           CopyKey(generation_config, "temperature",
                             [messages |-> converted.messages,
                              model |-> extract_model_from_url(raw_data)],
                             "temperature"),
                           "max_tokens"),
                         "top_p")]

RECURSIVE PydanticContents(_)
PydanticContents(parts) ==
    IF Len(parts) = 0 THEN <<>>
    ELSE (IF "content" \in DOMAIN Head(parts) THEN <<Head(parts).content>>
          ELSE IF "text" \in DOMAIN Head(parts) THEN <<Head(parts).text>>
          ELSE <<>>)
             \o PydanticContents(Tail(parts))

\* _convert_pydantic_ai_parts_to_content
convert_pydantic_ai_parts_to_content(parts) == Join(PydanticContents(parts))

\* an instruction given as a plain string
StringInstruction(text) == [json |-> "string", text |-> text]

RECURSIVE InstructionContents(_)
\* lines 787-799
InstructionContents(instructions) ==
    IF Len(instructions) = 0 THEN <<>>
    ELSE LET instruction == Head(instructions)
             one == IF IsDict(instruction) /\ "content" \in DOMAIN instruction
                    THEN <<instruction.content>>
                    ELSE IF IsDict(instruction) /\ "parts" \in DOMAIN instruction
                    THEN LET content ==
                                 convert_pydantic_ai_parts_to_content(instruction.parts)
                         IN  IF content /= <<>> THEN <<content>> ELSE <<>>
                    ELSE IF ~IsDict(instruction) /\ instruction.json = "string"
                    THEN <<instruction.text>>
                    ELSE <<>>
         IN  one \o InstructionContents(Tail(instructions))

RECURSIVE PydanticMessages(_)
\* lines 812-819
PydanticMessages(input_messages) ==
    IF Len(input_messages) = 0 THEN [ok |-> TRUE, messages |-> <<>>]
    ELSE LET msg == Head(input_messages)
             role == Get(msg, "role", "user")
             parts == Get(msg, "parts", <<>>)
             rest == PydanticMessages(Tail(input_messages))
         IN  IF ~IsList(parts) THEN [ok |-> FALSE, exc |-> "TypeError"]
             ELSE IF ~rest.ok THEN rest
             ELSE [ok |-> TRUE,
                   messages |->
                       << [role |-> role,
                           content |-> convert_pydantic_ai_parts_to_content(parts)] >>
                          \o rest.messages]

\* the conversion that puts the instructions after the input messages
convert_pydantic_ai_to_openai_format_InstructionsLast(raw_data) ==
    LET attributes == raw_data.attributes
        system_instructions == Get(attributes, "gen_ai.system_instructions", <<>>)
        system_content_parts == InstructionContents(system_instructions)
        first == IF Len(system_content_parts) > 0
                 THEN << [role |-> "system", content |-> Join(system_content_parts)] >>
                 ELSE <<>>
        input_messages == Get(attributes, "gen_ai.input.messages", <<>>)
        converted == IF ~IsList(input_messages) THEN [ok |-> FALSE, exc |-> "TypeError"]
                     ELSE PydanticMessages(input_messages)
    IN  IF ~converted.ok THEN [ok |-> FALSE, exc |-> "ValueError"]
        ELSE [ok |-> TRUE,
              body |-> CopyKey(attributes, "gen_ai.request.max_tokens",
                         CopyKey(attributes, "gen_ai.request.temperature",
                           [messages |-> converted.messages \o first,
                            model |-> Get(attributes, "gen_ai.request.model", "")],
                           "temperature"),
                         "max_tokens")]

\* _convert_pydantic_ai_to_openai_format; any exception leaves as ValueError
convert_pydantic_ai_to_openai_format(raw_data) ==
    LET attributes == raw_data.attributes
        system_instructions == Get(attributes, "gen_ai.system_instructions", <<>>)
        system_content_parts == InstructionContents(system_instructions)
        first == IF Len(system_content_parts) > 0
                 THEN << [role |-> "system", content |-> Join(system_content_parts)] >>
                 ELSE <<>>
        input_messages == Get(attributes, "gen_ai.input.messages", <<>>)
        converted == IF ~IsList(input_messages) THEN [ok |-> FALSE, exc |-> "TypeError"]
                     ELSE PydanticMessages(input_messages)
    IN  IF ~converted.ok THEN [ok |-> FALSE, exc |-> "ValueError"]
        ELSE [ok |-> TRUE,
              body |-> CopyKey(attributes, "gen_ai.request.max_tokens",
                         CopyKey(attributes, "gen_ai.request.temperature",
                           [messages |-> first \o converted.messages,
                            model |-> Get(attributes, "gen_ai.request.model", "")],
                           "temperature"),
                         "max_tokens")]

(***************************************************************************)
(* parse_llm_raw_data, lines 96-176: extraction and partition.             *)
(***************************************************************************)
SettingKeys ==
    <<"temperature", "top_p", "parallel_tool_calls", "seed", "presence_penalty",
      "frequency_penalty">>

RECURSIVE CopyKeys(_, _, _)
CopyKeys(from, keys, to) ==
    IF Len(keys) = 0 THEN to
    ELSE CopyKeys(from, Tail(keys), CopyKey(from, Head(keys), to, Head(keys)))

\* the extraction that prefers max_tokens over max_completion_tokens
ExtractModelSettings_MaxTokensFirst(body) ==
    LET direct == CopyKeys(body, SettingKeys, EmptyDict)
        model_settings ==
            IF "max_tokens" \in DOMAIN body
            THEN Put(direct, "max_tokens", body["max_tokens"])
            ELSE IF "max_completion_tokens" \in DOMAIN body
            THEN Put(direct, "max_tokens", body["max_completion_tokens"])
            ELSE direct
    IN  IF DOMAIN model_settings /= {} THEN <<model_settings>> ELSE <<>>

\* lines 101-123; an Optional value is a sequence of at most one element
ExtractModelSettings(body) ==
    LET direct == CopyKeys(body, SettingKeys, EmptyDict)
        model_settings ==
            IF "max_completion_tokens" \in DOMAIN body
            THEN Put(direct, "max_tokens", body["max_completion_tokens"])
            ELSE IF "max_tokens" \in DOMAIN body
            THEN Put(direct, "max_tokens", body["max_tokens"])
            ELSE direct
    IN  IF DOMAIN model_settings /= {} THEN <<model_settings>> ELSE <<>>

RECURSIVE FirstSystemFrom(_, _)
\* lines 135-140: scan forward, stop at the first system message; 0 for none
FirstSystemFrom(all_messages, i) ==
    IF i > Len(all_messages) THEN 0
    ELSE IF Get(all_messages[i], "role", None) = "system" THEN i
    ELSE FirstSystemFrom(all_messages, i + 1)

SystemMessageIndex(all_messages) == FirstSystemFrom(all_messages, 1)

RECURSIVE LastNonAssistantFrom(_, _)
\* lines 145-153: scan backward, stop at the first non-assistant message
LastNonAssistantFrom(all_messages, i) ==
    IF i < 1 THEN 0
    ELSE IF Get(all_messages[i], "role", None) /= "assistant" THEN i
    ELSE LastNonAssistantFrom(all_messages, i - 1)

RECURSIVE LastUserRoleFrom(_, _)
\* the scan that looks for the last message of role user
LastUserRoleFrom(all_messages, i) ==
    IF i < 1 THEN 0
    ELSE IF Get(all_messages[i], "role", None) = "user" THEN i
    ELSE LastUserRoleFrom(all_messages, i - 1)

LastUserMessageIndex_UserOnly(all_messages) ==
    LastUserRoleFrom(all_messages, Len(all_messages))

LastUserMessageIndex(all_messages) ==
    LastNonAssistantFrom(all_messages, Len(all_messages))

\* json.dumps(message) of a tool message
DumpsMessage(m) ==
    <<"{">>
        \o (IF "role" \in DOMAIN m THEN <<"role:", m.role>> ELSE <<>>)
        \o (IF "content" \in DOMAIN m THEN <<"content:">> \o m.content ELSE <<>>)
        \o (IF "tool_call_id" \in DOMAIN m
            THEN <<"tool_call_id:", m.tool_call_id>> ELSE <<>>)
        \o <<"}">>

RECURSIVE MiddleFrom_ByContent(_, _, _, _)
\* the loop that drops every message equal to an extracted one
MiddleFrom_ByContent(all_messages, i, system_message_index, last_user_message_index) ==
    IF i > Len(all_messages) THEN <<>>
    ELSE (IF (system_message_index = 0
                 \/ all_messages[i] /= all_messages[system_message_index])
             /\ (last_user_message_index = 0
                 \/ all_messages[i] /= all_messages[last_user_message_index])
          THEN <<all_messages[i]>> ELSE <<>>)
             \o MiddleFrom_ByContent(all_messages, i + 1, system_message_index,
                                     last_user_message_index)

RECURSIVE MiddleFrom(_, _, _, _)
\* lines 156-159
MiddleFrom(all_messages, i, system_message_index, last_user_message_index) ==
    IF i > Len(all_messages) THEN <<>>
    ELSE (IF i /= system_message_index /\ i /= last_user_message_index
          THEN <<all_messages[i]>> ELSE <<>>)
             \o MiddleFrom(all_messages, i + 1, system_message_index,
                           last_user_message_index)

\* lines 132-176: the ParsedLLMData built from the canonical request body
Partition(body) ==
    LET all_messages == Get(body, "messages", <<>>)
        tools == Get(body, "tools", <<>>)
        system_message_index == SystemMessageIndex(all_messages)
        last_user_message_index == LastUserMessageIndex(all_messages)
        system_prompt ==
            IF system_message_index = 0 THEN <<>>
            ELSE Get(all_messages[system_message_index], "content", <<>>)
        last ==
            IF last_user_message_index = 0 THEN <<>>
            ELSE LET m == all_messages[last_user_message_index]
                 IN  IF Get(m, "role", None) = "tool" THEN DumpsMessage(m)
                     ELSE Get(m, "content", <<>>)
    IN  [middle_messages |-> MiddleFrom(all_messages, 1, system_message_index,
                                        last_user_message_index),
         tools |-> IF Len(tools) > 0 THEN <<tools>> ELSE <<>>,
         model_name |-> Get(body, "model", ""),
         model_settings |-> ExtractModelSettings(body),
         system_prompt |-> system_prompt,
         last_user_message |-> last]

(***************************************************************************)
(* llm_execution_service.build_replay_messages                             *)
(***************************************************************************)
\* the builder that leaves out a user turn already present among the middle
\* messages
build_replay_messages_Dedup(system_prompt, middle_messages, user_message) ==
    (IF system_prompt /= <<>>
     THEN << [role |-> "system", content |-> system_prompt] >> ELSE <<>>)
        \o middle_messages
        \o (IF user_message /= <<>>
               /\ \A k \in 1..Len(middle_messages) :
                      middle_messages[k] /= [role |-> "user", content |-> user_message]
            THEN << [role |-> "user", content |-> user_message] >> ELSE <<>>)

build_replay_messages(system_prompt, middle_messages, user_message) ==
    (IF system_prompt /= <<>>
     THEN << [role |-> "system", content |-> system_prompt] >> ELSE <<>>)
        \o middle_messages
        \o (IF user_message /= <<>>
            THEN << [role |-> "user", content |-> user_message] >> ELSE <<>>)

(***************************************************************************)
(* llm_execution_service.execute_llm_test, lines 109-136: the replay list  *)
(* assembled inline                                                        *)
(***************************************************************************)
\* the assembly that appends the user turn before the middle messages
InlineReplayMessages_UserBeforeMiddle(system_prompt, middle_messages, user_message) ==
    (IF system_prompt /= <<>>
     THEN << [role |-> "system", content |-> system_prompt] >> ELSE <<>>)
        \o (IF user_message /= <<>>
            THEN << [role |-> "user", content |-> user_message] >> ELSE <<>>)
        \o middle_messages

InlineReplayMessages(system_prompt, middle_messages, user_message) ==
    LET started == <<>>
        with_system == IF system_prompt /= <<>>
                       THEN Append(started, [role |-> "system",
                                             content |-> system_prompt])
                       ELSE started
        with_middle == IF Len(middle_messages) > 0
                       THEN with_system \o middle_messages
                       ELSE with_system
    IN  IF user_message /= <<>>
        THEN Append(with_middle, [role |-> "user", content |-> user_message])
        ELSE with_middle

\* lines 109-138: the list handed on to the conversion, or the ValueError
execute_llm_test_messages(system_prompt, middle_messages, user_message) ==
    LET inline == InlineReplayMessages(system_prompt, middle_messages, user_message)
    IN  IF Len(inline) = 0
        THEN [kind |-> "raise", error |-> "ValueError",
              message |-> "No messages to send to LLM"]
        ELSE [kind |-> "return", data |-> inline]

(***************************************************************************)
(* The captures the parser is run on.                                      *)
(***************************************************************************)
RECURSIVE SeqsUpTo(_, _)
\* the sequences over S of length at most n
SeqsUpTo(S, n) ==
    IF n = 0 THEN { <<>> }
    ELSE LET shorter == SeqsUpTo(S, n - 1)
         IN  shorter \cup { Append(q, x) : q \in shorter, x \in S }

HttpCapture(body) == [attributes |-> [k \in {BodyKey} |-> body]]

OpenAIMessages ==
    { [role |-> "system", content |-> <<"s">>],
      [role |-> "user", content |-> <<"a">>],
      [role |-> "user", content |-> <<>>],
      [role |-> "assistant", content |-> <<"b">>],
      [role |-> "tool", content |-> <<"r">>, tool_call_id |-> "tool_call_1"],
      [role |-> "function", content |-> <<"a">>],
      [role |-> "user"] }

OpenAIModels == {"gpt-4o-mini", "", NotAString}

OpenAICaptures ==
    { HttpCapture([messages |-> ms, model |-> m]) :
          ms \in SeqsUpTo(OpenAIMessages, MaxMessages), m \in OpenAIModels }

GeminiEntries ==
    { [role |-> "user", parts |-> << [text |-> <<"a">>] >>],
      [role |-> "model", parts |-> << [text |-> <<"b">>] >>],
      [role |-> "model", parts |-> <<CallF>>],
      [role |-> "user", parts |-> <<RespF>>],
      [role |-> "user", parts |-> NotAList],
      [parts |-> << [text |-> <<"a">>] >>] }

GeminiSystemInstructions ==
    { [parts |-> << [text |-> <<"s">>] >>], [parts |-> << [inlineData |-> "img"] >>] }

GeminiBodies ==
    { [contents |-> cs] : cs \in SeqsUpTo(GeminiEntries, MaxEntries) }
        \cup { [contents |-> cs, systemInstruction |-> si] :
                   cs \in SeqsUpTo(GeminiEntries, MaxEntries),
                   si \in GeminiSystemInstructions }

GeminiCaptures ==
    { [attributes |-> [k \in {BodyKey, "http.target"} |->
                           IF k = BodyKey THEN b ELSE GeminiUrl]] :
          b \in GeminiBodies }
        \cup { HttpCapture(b) : b \in GeminiBodies }

PydanticMessagesIn ==
    { [role |-> "user", parts |-> << [type |-> "text", content |-> <<"a">>] >>],
      [role |-> "system", parts |-> << [type |-> "text", content |-> <<"s2">>] >>],
      [role |-> "assistant", parts |-> << [type |-> "text", content |-> <<"b">>] >>],
      [role |-> "user", parts |-> NotAList],
      [role |-> "user"],
      [parts |-> << [type |-> "text", content |-> <<"a">>] >>] }

PydanticInstructions ==
    { << [type |-> "text", content |-> <<"s">>] >>,
      << [parts |-> << [content |-> <<"s">>], [content |-> <<"t">>] >>] >>,
      << StringInstruction(<<"s">>), [type |-> "text", content |-> <<"t">>] >>,
      << [type |-> "text"] >> }

PydanticAttributes ==
    LET base == { [k \in {"gen_ai.input.messages"} |-> ms] :
                      ms \in SeqsUpTo(PydanticMessagesIn, MaxEntries) }
        withModel == base \cup { Put(a, "gen_ai.request.model", "openai/gpt-4") :
                                    a \in base }
    IN  withModel \cup { Put(a, "gen_ai.system_instructions", si) :
                             a \in withModel, si \in PydanticInstructions }

PydanticCaptures == { [attributes |-> a] : a \in PydanticAttributes }

OddCaptures ==
    { NotADict,
      [span_name |-> "chat"],
      [attributes |-> [k \in {"gen_ai.operation.name"} |-> "chat"]],
      HttpCapture([prompt |-> "a"]) }

\* captures that show the marks of more than one format
MixedCaptures ==
    LET user == [role |-> "user", content |-> <<"a">>]
        entry == [role |-> "user", parts |-> << [text |-> <<"c">>] >>]
        openai == [messages |-> <<user>>, model |-> "gpt-4o-mini"]
        both == [messages |-> <<user>>, model |-> "gpt-4o-mini",
                 contents |-> <<entry>>]
        noModel == [messages |-> <<user>>, contents |-> <<entry>>]
        telemetry ==
            [k \in {"gen_ai.input.messages", "gen_ai.request.model", BodyKey} |->
                IF k = "gen_ai.input.messages"
                THEN << [role |-> "user",
                         parts |-> << [type |-> "text", content |-> <<"p">>] >>] >>
                ELSE IF k = "gen_ai.request.model" THEN "openai/gpt-4"
                ELSE openai]
    IN  { [attributes |-> telemetry], HttpCapture(both), HttpCapture(noModel) }

\* the request keys the settings extraction looks at, and one it ignores
RequestOptionValues ==
    [temperature |-> "0.2", top_p |-> "0.9", parallel_tool_calls |-> "false",
     seed |-> "7", presence_penalty |-> "0.5", frequency_penalty |-> "0.3",
     max_tokens |-> "1000", max_completion_tokens |-> "2000",
     stream |-> "true"]

\* OpenAI requests that carry any subset of these keys
SettingsCaptures ==
    { HttpCapture([k \in {"messages", "model"} \cup keys |->
                      IF k = "messages"
                      THEN <<[role |-> "user", content |-> <<"a">>]>>
                      ELSE IF k = "model" THEN "gpt-4o-mini"
                      ELSE RequestOptionValues[k]]) :
          keys \in SUBSET DOMAIN RequestOptionValues }
        \cup
    { [attributes |->
          [a \in {"gen_ai.input.messages", "gen_ai.request.model"} \cup keys |->
              IF a = "gen_ai.input.messages"
              THEN <<[role |-> "user",
                      parts |-> <<[type |-> "text", content |-> <<"a">>]>>]>>
              ELSE IF a = "gen_ai.request.model" THEN "openai/gpt-4"
              ELSE IF a = "gen_ai.request.temperature" THEN "0.2"
              ELSE "1000"]] :
          keys \in SUBSET {"gen_ai.request.temperature",
                           "gen_ai.request.max_tokens"} }

\* pydantic_ai input messages whose parts are not all text: tool calls and
\* tool responses in both spellings, a part of no known shape, no parts; and
\* one with a role that is not an OpenAI role
PydanticToolMessagesIn ==
    { [role |-> "user", parts |-> << [text |-> <<"a">>] >>],
      [role |-> "assistant", parts |-> << [type |-> "text", content |-> <<"b">>],
                                          CallF >>],
      [role |-> "assistant", parts |-> << [type |-> "tool_call", name |-> "f"] >>],
      [role |-> "user", parts |-> << RespF >>],
      [role |-> "user", parts |-> << [type |-> "image"] >>],
      [role |-> "assistant", parts |-> <<>>],
      [role |-> "developer", parts |-> << [type |-> "text", content |-> <<"d">>] >>] }

PydanticToolCaptures ==
    { [attributes |->
          [a \in {"gen_ai.input.messages", "gen_ai.request.model"} |->
              IF a = "gen_ai.input.messages" THEN ms ELSE "openai/gpt-4"]] :
          ms \in SeqsUpTo(PydanticToolMessagesIn, MaxEntries) }

Captures ==
    OpenAICaptures \cup GeminiCaptures \cup PydanticCaptures \cup OddCaptures
        \cup MixedCaptures \cup SettingsCaptures \cup PydanticToolCaptures

(***************************************************************************)
(* create_test_case (lines 95-100) and parse_llm_raw_data as steps.        *)
(***************************************************************************)
NoOutcome == [kind |-> "none"]

Raised(type, message) == [kind |-> "raise", error |-> type, message |-> message]

Returned(data) == [kind |-> "return", data |-> data]

PInit ==
    /\ ppc = "start"
    /\ raw \in Captures
    /\ via \in {"service", "direct"}
    /\ source = "undetected"
    /\ canonical = EmptyDict
    /\ exc = None
    /\ outcome = NoOutcome
    /\ trace = <<>>
    /\ replay_messages = <<>>

Raise(e) ==
    /\ exc' = e
    /\ ppc' = "except"

\* test_case_service lines 95-97: validate, raise ValueError when invalid
Validate ==
    /\ ppc = "start" /\ via = "service"
    /\ trace' = Append(trace, "validate")
    /\ IF validate_raw_data_format(raw)
       THEN /\ ppc' = "validated"
            /\ UNCHANGED outcome
       ELSE /\ ppc' = "raised"
            /\ outcome' = Raised("ValueError", "Invalid raw data format")
    /\ UNCHANGED <<raw, via, source, canonical, exc, replay_messages,
                   gvars, svars, nvars>>

\* lines 60-70: the attributes and the data source
ParseDetect ==
    /\ \/ ppc = "start" /\ via = "direct"
       \/ ppc = "validated"
    /\ trace' = Append(trace, "detect")
    /\ IF ~IsDict(raw)
       THEN Raise("AttributeError") /\ UNCHANGED source
       ELSE IF DOMAIN Get(raw, "attributes", EmptyDict) = {}
       THEN Raise("ValueError") /\ UNCHANGED source
       ELSE /\ source' = detect_data_source(raw)
            /\ ppc' = "detected"
            /\ UNCHANGED exc
    /\ UNCHANGED <<raw, via, canonical, outcome, replay_messages,
                   gvars, svars, nvars>>

\* lines 72-94: the branch on the detected format, with its conversion
ParseConvert ==
    /\ ppc = "detected"
    /\ LET attributes == raw.attributes
           body == Get(attributes, BodyKey, EmptyDict)
           api_format == detect_api_format(body)
           converter ==
               IF source = "pydantic_ai" THEN "convert_pydantic_ai"
               ELSE IF source = "http_body" /\ DOMAIN body /= {}
                       /\ api_format = "gemini" THEN "convert_gemini"
               ELSE "none"
           converted ==
               IF converter = "convert_pydantic_ai"
               THEN convert_pydantic_ai_to_openai_format(raw)
               ELSE IF converter = "convert_gemini"
               THEN convert_gemini_to_openai_format(raw)
               ELSE IF source = "http_body" /\ DOMAIN body /= {}
                       /\ api_format = "openai"
               THEN [ok |-> TRUE, body |-> body]
               ELSE [ok |-> FALSE, exc |-> "ValueError"]
       IN  /\ trace' = IF converter = "none" THEN trace ELSE Append(trace, converter)
           /\ IF converted.ok
              THEN /\ canonical' = converted.body
                   /\ ppc' = "converted"
                   /\ UNCHANGED exc
              ELSE Raise(converted.exc) /\ UNCHANGED canonical
    /\ UNCHANGED <<raw, via, source, outcome, replay_messages,
                   gvars, svars, nvars>>

\* what pydantic accepts for the str fields of ParsedLLMData
ValidParsedLLMData(data) == IsStr(data.model_name)

\* the check that asks for messages only
MissingRequired_MessagesOnly(all_messages, model_name) == Len(all_messages) = 0

\* lines 125-128: "No messages found", "No model specified"
MissingRequired(all_messages, model_name) ==
    Len(all_messages) = 0 \/ model_name = ""

\* lines 96-176: extract, check, partition, build the ParsedLLMData
ParseExtract ==
    /\ ppc = "converted"
    /\ trace' = Append(trace, "extract")
    /\ LET all_messages == Get(canonical, "messages", <<>>)
           model_name == Get(canonical, "model", "")
           data == Partition(canonical)
       IN  IF MissingRequired(all_messages, model_name)
           THEN Raise("ValueError") /\ UNCHANGED outcome
           ELSE IF ~ValidParsedLLMData(data)
           THEN Raise("ValidationError") /\ UNCHANGED outcome
           ELSE /\ outcome' = Returned(data)
                /\ ppc' = "returned"
                /\ UNCHANGED exc
    /\ UNCHANGED <<raw, via, source, canonical, replay_messages,
                   gvars, svars, nvars>>

\* pydantic's ValidationError is a ValueError
IsValueOrKeyError(e) == e \in {"ValueError", "KeyError", "ValidationError"}

\* the handler without the "except Exception" clause
HandleException_FirstClauseOnly(e) ==
    IF IsValueOrKeyError(e) THEN Raised("ValueError", "Invalid raw data format")
    ELSE Raised(e, "")

\* lines 178-183
HandleException(e) ==
    IF IsValueOrKeyError(e) THEN Raised("ValueError", "Invalid raw data format")
    ELSE Raised("ValueError", "Failed to parse raw data")

ParseExcept ==
    /\ ppc = "except"
    /\ outcome' = HandleException(exc)
    /\ ppc' = "raised"
    /\ UNCHANGED <<raw, via, source, canonical, exc, trace,
                   replay_messages, gvars, svars, nvars>>

\* the replay list of the stored split, llm_execution_service lines 285-320
BuildReplay ==
    /\ ppc = "returned"
    /\ replay_messages' = build_replay_messages(outcome.data.system_prompt,
                                                outcome.data.middle_messages,
                                                outcome.data.last_user_message)
    /\ ppc' = "replayed"
    /\ UNCHANGED <<raw, via, source, canonical, exc, outcome, trace,
                   gvars, svars, nvars>>

PNext ==
    \/ Validate
    \/ ParseDetect
    \/ ParseConvert
    \/ ParseExtract
    \/ ParseExcept
    \/ BuildReplay

(***************************************************************************)
(* parse_llm_raw_data as one call: lines 60-183 composed, the value a      *)
(* caller of the function gets.                                            *)
(***************************************************************************)
\* lines 96-176 on the canonical request body
ExtractedFrom(request_body) ==
    IF MissingRequired(Get(request_body, "messages", <<>>),
                       Get(request_body, "model", ""))
    THEN HandleException("ValueError")
    ELSE CHOOSE result \in
             { IF ~ValidParsedLLMData(data) THEN HandleException("ValidationError")
               ELSE Returned(data) :
                   data \in {Partition(request_body)} } :
             TRUE

\* lines 72-94 on a capture whose data source is known
ConvertedFrom(raw_data, data_source) ==
    LET body == Get(raw_data.attributes, BodyKey, EmptyDict)
    IN  IF data_source = "pydantic_ai"
        THEN convert_pydantic_ai_to_openai_format(raw_data)
        ELSE IF data_source = "http_body" /\ DOMAIN body /= {}
                /\ detect_api_format(body) = "gemini"
        THEN convert_gemini_to_openai_format(raw_data)
        ELSE IF data_source = "http_body" /\ DOMAIN body /= {}
                /\ detect_api_format(body) = "openai"
        THEN [ok |-> TRUE, body |-> body]
        ELSE [ok |-> FALSE, exc |-> "ValueError"]

parse_llm_raw_data(raw_data) ==
    IF ~IsDict(raw_data) THEN HandleException("AttributeError")
    ELSE IF DOMAIN Get(raw_data, "attributes", EmptyDict) = {}
    THEN HandleException("ValueError")
    ELSE CHOOSE result \in
             { IF converted.ok THEN ExtractedFrom(converted.body)
               ELSE HandleException(converted.exc) :
                   converted \in
                       { ConvertedFrom(raw_data, data_source) :
                             data_source \in {detect_data_source(raw_data)} } } :
             TRUE

(***************************************************************************)
(* The test case service and the test execution service.  An Optional      *)
(* request field is a sequence of at most one element, <<>> for None.      *)
(***************************************************************************)
\* Python's "a or b" on Optional[str] fields that hold names
OrName(a, b) == IF Len(a) > 0 /\ a[1] /= "" THEN a ELSE b

\* Python's "a or b" on Optional fields that hold text or a list
OrValue(a, b) == IF Len(a) > 0 /\ DOMAIN a[1] /= {} THEN a ELSE b

\* an Optional text as the callee tests it: None and "" are both falsy
TextOrEmpty(a) == IF Len(a) > 0 THEN a[1] ELSE <<>>

\* the six parsed fields of a stored test case
ParsedFields ==
    {"middle_messages", "tools", "model_name", "model_settings",
     "system_prompt", "last_user_message"}

NoTestCase ==
    [name |-> "", description |-> <<>>, raw_data |-> NotADict,
     middle_messages |-> <<>>, tools |-> <<>>, model_name |-> "",
     model_settings |-> <<>>, system_prompt |-> <<>>,
     last_user_message |-> <<>>]

NoCall == [op |-> "none"]

ToolT == [type |-> "function", function |-> [name |-> "f"]]

ToolU == [type |-> "function", function |-> [name |-> "g"]]

\* a capture with a system message, tools and a sampling setting
CaptureWithTools ==
    HttpCapture([messages |-> <<[role |-> "system", content |-> <<"s">>],
                                [role |-> "user", content |-> <<"a">>]>>,
                 model |-> "gpt-4o-mini",
                 tools |-> <<ToolT>>,
                 temperature |-> "0.7"])

\* a capture with neither a system message, nor tools, nor settings
CapturePlain ==
    HttpCapture([messages |-> <<[role |-> "user", content |-> <<"a">>],
                                [role |-> "assistant", content |-> <<"b">>],
                                [role |-> "user", content |-> <<"c">>]>>,
                 model |-> "gpt-4.1"])

\* a capture the validator rejects
CaptureInvalid ==
    HttpCapture([messages |-> <<[role |-> "function", content |-> <<"a">>]>>,
                 model |-> "gpt-4.1"])

\* a capture whose only turn has empty content
CaptureEmptyTurn ==
    HttpCapture([messages |-> <<[role |-> "user", content |-> <<>>]>>,
                 model |-> "gpt-4.1"])

ServiceCaptures ==
    {CaptureWithTools, CapturePlain, CaptureInvalid, CaptureEmptyTurn}

\* test_case_service lines 96-100 and 232-246: validate, parse, set the raw
\* data and the six parsed fields
Reparsed(tc, raw_data) ==
    IF ~validate_raw_data_format(raw_data)
    THEN Raised("ValueError", "Invalid raw data format")
    ELSE CHOOSE result \in
             { IF parsed_data.kind = "raise" THEN parsed_data
               ELSE Returned(
                      [tc EXCEPT
                         !.raw_data = raw_data,
                         !.middle_messages = parsed_data.data.middle_messages,
                         !.tools = parsed_data.data.tools,
                         !.model_name = parsed_data.data.model_name,
                         !.model_settings = parsed_data.data.model_settings,
                         !.system_prompt = parsed_data.data.system_prompt,
                         !.last_user_message = parsed_data.data.last_user_message]) :
                   parsed_data \in {parse_llm_raw_data(raw_data)} } :
             TRUE

\* test_case_service lines 95-126
CreatedTestCase(request) ==
    Reparsed([NoTestCase EXCEPT !.name = request.name,
                                !.description = request.description],
             request.raw_data)

\* lines 250-253: name and description when provided
WithNameAndDescription(tc, request) ==
    LET t1 == IF Len(request.name) > 0
              THEN [tc EXCEPT !.name = request.name[1]] ELSE tc
    IN  IF Len(request.description) > 0
        THEN [t1 EXCEPT !.description = request.description] ELSE t1

\* lines 256-260 without the test on raw_data
WithPromptFields_Always(tc, request) ==
    LET t1 == IF Len(request.system_prompt) > 0
              THEN [tc EXCEPT !.system_prompt = request.system_prompt[1]]
              ELSE tc
    IN  IF Len(request.last_user_message) > 0
        THEN [t1 EXCEPT !.last_user_message = request.last_user_message[1]]
        ELSE t1

\* lines 256-260: system_prompt and last_user_message from the request,
\* only when raw_data was not provided
WithPromptFields(tc, request) ==
    IF Len(request.raw_data) > 0 THEN tc
    ELSE LET t1 == IF Len(request.system_prompt) > 0
                   THEN [tc EXCEPT !.system_prompt = request.system_prompt[1]]
                   ELSE tc
         IN  IF Len(request.last_user_message) > 0
             THEN [t1 EXCEPT !.last_user_message = request.last_user_message[1]]
             ELSE t1

\* test_case_service lines 227-265
UpdatedTestCase(tc, request) ==
    CHOOSE result \in
        { IF reparsed.kind = "raise" THEN reparsed
          ELSE Returned(WithPromptFields(
                            WithNameAndDescription(reparsed.data, request),
                            request)) :
              reparsed \in { IF Len(request.raw_data) = 0 THEN Returned(tc)
                             ELSE Reparsed(tc, request.raw_data[1]) } } :
        TRUE

\* test_execution_service lines 117-140 and llm_execution_service lines
\* 174-175: what the test runs with
ResolvedExecution(tc, ag, request) ==
    LET model_name ==
            OrName(request.modified_model_name,
                   OrName(<<tc.model_name>>, ag.default_model_name))
        system_prompt ==
            OrValue(request.modified_system_prompt,
                    OrValue(<<tc.system_prompt>>, ag.default_system_prompt))
        user_message ==
            OrValue(request.modified_last_user_message, <<tc.last_user_message>>)
        tools == OrValue(request.modified_tools, tc.tools)
        model_settings ==
            IF Len(request.modified_model_settings) > 0
            THEN request.modified_model_settings
            ELSE IF Len(tc.model_settings) > 0 THEN tc.model_settings
            ELSE ag.default_model_settings
        tools_to_use == IF Len(tools) > 0 THEN tools ELSE tc.tools
    IN  IF Len(model_name) = 0 \/ model_name[1] = ""
        THEN Raised("ValueError", "No model name specified")
        ELSE Returned([model_name |-> model_name,
                       system_prompt |-> system_prompt,
                       user_message |-> user_message,
                       tools |-> tools_to_use,
                       model_settings |-> model_settings,
                       middle_messages |-> tc.middle_messages])

(***************************************************************************)
(* The requests the services are driven with.                              *)
(***************************************************************************)
CreateRequests ==
    [name : {"n"}, description : {<<>>}, raw_data : ServiceCaptures]

UpdateRequests ==
    [name : {<<>>, <<"m">>},
     description : {<<>>, <<"d">>},
     raw_data : {<<>>} \cup { <<c>> : c \in ServiceCaptures },
     system_prompt : {<<>>, << <<"p">> >>},
     last_user_message : {<<>>, << <<"q">> >>}]

\* a request without overrides
NoOverrides ==
    [modified_model_name |-> <<>>, modified_system_prompt |-> <<>>,
     modified_last_user_message |-> <<>>, modified_tools |-> <<>>,
     modified_model_settings |-> <<>>]

\* every field overridden, by empty values or by values that are not empty
EmptyOverrides ==
    [modified_model_name |-> <<"">>, modified_system_prompt |-> << <<>> >>,
     modified_last_user_message |-> << <<>> >>, modified_tools |-> << <<>> >>,
     modified_model_settings |-> <<EmptyDict>>]

FullOverrides ==
    [modified_model_name |-> <<"o">>, modified_system_prompt |-> << <<"p">> >>,
     modified_last_user_message |-> << <<"q">> >>,
     modified_tools |-> << <<ToolU>> >>,
     modified_model_settings |-> <<[temperature |-> "0.1"]>>]

\* no override, one override (empty or not), or all five
ExecutionRequests ==
    {NoOverrides, EmptyOverrides, FullOverrides}
        \cup { [f \in DOMAIN NoOverrides |->
                    IF f = g THEN from[f] ELSE NoOverrides[f]] :
                  g \in DOMAIN NoOverrides, from \in {EmptyOverrides, FullOverrides} }

Agents ==
    { [default_model_name |-> <<"default-model">>,
       default_system_prompt |-> << <<"ds">> >>,
       default_model_settings |-> <<[top_p |-> "0.9"]>>],
      [default_model_name |-> <<>>,
       default_system_prompt |-> <<>>,
       default_model_settings |-> <<>>] }

(***************************************************************************)
(* The service calls as steps on one stored test case.                     *)
(***************************************************************************)
SInit ==
    /\ spc = "empty"
    /\ test_case = NoTestCase
    /\ agent \in Agents
    /\ call = NoCall

SIdle ==
    /\ spc = "idle"
    /\ test_case = NoTestCase
    /\ agent = CHOOSE a \in Agents : Len(a.default_model_name) = 0
    /\ call = NoCall

\* TestCaseService.create_test_case
Create(request) ==
    \E result \in {CreatedTestCase(request)} :
        /\ call' = [op |-> "create", request |-> request,
                    before |-> test_case, result |-> result]
        /\ IF result.kind = "return"
           THEN test_case' = result.data /\ spc' = "stored"
           ELSE UNCHANGED <<test_case, spc>>
        /\ UNCHANGED <<agent, gvars, pvars, nvars>>

CreateTestCase ==
    /\ spc = "empty"
    /\ \E request \in CreateRequests : Create(request)

\* TestCaseService.update_test_case
Update(request) ==
    \E result \in {UpdatedTestCase(test_case, request)} :
        /\ call' = [op |-> "update", request |-> request,
                    before |-> test_case, result |-> result]
        /\ test_case' = IF result.kind = "return" THEN result.data
                        ELSE test_case
        /\ UNCHANGED <<spc, agent, gvars, pvars, nvars>>

UpdateTestCase ==
    /\ spc = "stored"
    /\ \E request \in UpdateRequests : Update(request)

\* TestExecutionService.execute_test up to the call of the model
Execute(request) ==
    \E result \in {ResolvedExecution(test_case, agent, request)} :
        /\ call' = [op |-> "execute", request |-> request,
                    before |-> test_case,
                    result |-> result,
                    sent |-> IF result.kind = "return"
                             THEN execute_llm_test_messages(
                                      TextOrEmpty(result.data.system_prompt),
                                      result.data.middle_messages,
                                      TextOrEmpty(result.data.user_message))
                             ELSE NoOutcome]
        /\ UNCHANGED <<spc, test_case, agent, gvars, pvars, nvars>>

ExecuteTest ==
    /\ spc = "stored"
    /\ \E request \in ExecutionRequests : Execute(request)

SNext ==
    \/ CreateTestCase
    \/ UpdateTestCase
    \/ ExecuteTest

(***************************************************************************)
(* regression_test_service.RegressionTestService: one regression record,   *)
(* its creation, the execute_regression calls dispatched for it and the    *)
(* deletion of its agent.  Timestamps are readings of a clock that ticks   *)
(* at every datetime.now(); an Optional field is a sequence of at most one *)
(* element.                                                                *)
(***************************************************************************)
NoRecord ==
    [status |-> "none", total_count |-> 0, success_count |-> 0,
     failed_count |-> 0, passed_count |-> 0, declined_count |-> 0,
     unknown_count |-> 0, error_message |-> <<>>, started_at |-> <<>>,
     completed_at |-> <<>>, is_deleted |-> FALSE]

\* lines 85-118: the record create_regression stores for total_count cases
CreatedRecord(total_count, t) ==
    [status |-> IF total_count = 0 THEN "completed" ELSE "pending",
     total_count |-> total_count, success_count |-> 0, failed_count |-> 0,
     passed_count |-> 0, declined_count |-> 0, unknown_count |-> 0,
     error_message |-> <<>>,
     started_at |-> IF total_count = 0 THEN <<t>> ELSE <<>>,
     completed_at |-> IF total_count = 0 THEN <<t>> ELSE <<>>,
     is_deleted |-> FALSE]

\* the guard that lets a record of any status be executed
MayExecute_AnyStatus(r) == ~r.is_deleted

\* lines 127-140: the guard of execute_regression
MayExecute(r) == ~r.is_deleted /\ r.status \in {"pending", "running"}

\* lines 144-156: the agent is inactive
FailedForInactiveAgent(r, t) ==
    [r EXCEPT !.status = "failed",
              !.error_message = << <<"Agent not found or inactive">> >>,
              !.started_at = IF Len(r.started_at) > 0 THEN r.started_at ELSE <<t>>,
              !.completed_at = <<t>>]

\* lines 158-168: the run is started over total_count cases
StartedRecord(r, total_count, t) ==
    [r EXCEPT !.total_count = total_count, !.status = "running",
              !.started_at = <<t>>, !.success_count = 0, !.failed_count = 0,
              !.passed_count = 0, !.declined_count = 0, !.unknown_count = 0,
              !.error_message = <<>>]

\* lines 170-178: no test case to execute
CompletedEmpty(r, t) ==
    [r EXCEPT !.status = "completed", !.completed_at = <<t>>]

\* what execute_test hands back: its status and the verdict of the evaluation
ExecutionResults ==
    { [status |-> "success", is_passed |-> <<TRUE>>],
      [status |-> "success", is_passed |-> <<>>],
      [status |-> "failed", is_passed |-> <<FALSE>>] }

RECURSIVE CountStatus(_, _)
\* sum(1 for result in results if result.status == status)
CountStatus(rs, status) ==
    IF Len(rs) = 0 THEN 0
    ELSE (IF Head(rs).status = status THEN 1 ELSE 0) + CountStatus(Tail(rs), status)

RECURSIVE CountPassed(_, _)
\* sum(1 for result in results if result.is_passed is v)
CountPassed(rs, v) ==
    IF Len(rs) = 0 THEN 0
    ELSE (IF Head(rs).is_passed = v THEN 1 ELSE 0) + CountPassed(Tail(rs), v)

Maximum(a, b) == IF a >= b THEN a ELSE b

RECURSIVE JoinErrors(_)
\* "; ".join(execution_errors)
JoinErrors(errors) ==
    IF Len(errors) = 0 THEN <<>>
    ELSE IF Len(errors) = 1 THEN errors[1]
    ELSE errors[1] \o <<"; ">> \o JoinErrors(Tail(errors))

\* the failed count that leaves the raised exceptions out
FailedCount_ResultsOnly(n, rs, errors) == CountStatus(rs, "failed")

\* lines 210-213
FailedCount(n, rs, errors) ==
    IF Len(errors) > 0
    THEN Maximum(n - CountStatus(rs, "success"), Len(errors))
    ELSE n - CountStatus(rs, "success")

\* lines 210-234: the record after the gather
FinishedRecord(r, n, rs, errors, t) ==
    [r EXCEPT
        !.success_count = CountStatus(rs, "success"),
        !.failed_count = FailedCount(n, rs, errors),
        !.passed_count = CountPassed(rs, <<TRUE>>),
        !.declined_count = CountPassed(rs, <<FALSE>>),
        !.unknown_count = CountPassed(rs, <<>>) + Maximum(0, n - Len(rs)),
        !.status = IF Len(errors) > 0 \/ FailedCount(n, rs, errors) > 0
                   THEN "failed" ELSE "completed",
        !.error_message = IF Len(errors) > 0 THEN <<JoinErrors(errors)>> ELSE <<>>,
        !.completed_at = <<t>>]

\* asyncio.Semaphore: acquire succeeds while the value is positive
Acquirable(value) == value > 0

\* the release that gives back two slots
Released_Twice(value) == value + 2

\* asyncio.Semaphore.release, on leaving "async with semaphore"
Released(value) == value + 1

\* the cases whose execute_case holds a slot
InProgress == { i \in 1..Len(cases) : cases[i] = "running" }

Queued == { i \in 1..Len(cases) : cases[i] = "queued" }

RInit ==
    /\ rpc = "none"
    /\ record = NoRecord
    /\ regression = NoRecord
    /\ agent_is_deleted = FALSE
    /\ cases = <<>>
    /\ semaphore = MAX_CONCURRENCY
    /\ results = <<>>
    /\ execution_errors = <<>>
    /\ now = 0
    /\ dispatches = 0
    /\ last_dispatch = "none"

RIdle ==
    /\ rpc = "idle"
    /\ record = NoRecord
    /\ regression = NoRecord
    /\ agent_is_deleted = FALSE
    /\ cases = <<>>
    /\ semaphore = MAX_CONCURRENCY
    /\ results = <<>>
    /\ execution_errors = <<>>
    /\ now = 0
    /\ dispatches = 0
    /\ last_dispatch = "none"

\* create_regression, lines 73-122
CreateRegression ==
    /\ rpc = "none"
    /\ ~agent_is_deleted
    /\ \E total_count \in 0..MaxCases :
          record' = CreatedRecord(total_count, now + 1)
    /\ now' = now + 1
    /\ rpc' = "atrest"
    /\ UNCHANGED <<regression, agent_is_deleted, cases, semaphore, results,
                   execution_errors, dispatches, last_dispatch, notR>>

\* execute_regression, lines 124-140: the call returns at once
DispatchSkipped ==
    /\ rpc = "atrest"
    /\ dispatches < MaxDispatches
    /\ ~MayExecute(record)
    /\ dispatches' = dispatches + 1
    /\ last_dispatch' = "skipped"
    /\ regression' = record
    /\ UNCHANGED <<rpc, record, agent_is_deleted, cases, semaphore, results,
                   execution_errors, now, notR>>

\* execute_regression, lines 142-156: the agent is inactive
DispatchInactiveAgent ==
    /\ rpc = "atrest"
    /\ dispatches < MaxDispatches
    /\ MayExecute(record)
    /\ agent_is_deleted
    /\ dispatches' = dispatches + 1
    /\ last_dispatch' = "inactive"
    /\ regression' = FailedForInactiveAgent(record, now + 1)
    /\ record' = regression'
    /\ now' = now + 1
    /\ UNCHANGED <<rpc, agent_is_deleted, cases, semaphore, results,
                   execution_errors, notR>>

\* execute_regression, lines 158-178: the agent has no test case
DispatchEmpty ==
    /\ rpc = "atrest"
    /\ dispatches < MaxDispatches
    /\ MayExecute(record)
    /\ ~agent_is_deleted
    /\ dispatches' = dispatches + 1
    /\ last_dispatch' = "empty"
    /\ regression' = CompletedEmpty(StartedRecord(record, 0, now + 1), now + 2)
    /\ record' = regression'
    /\ now' = now + 2
    /\ UNCHANGED <<rpc, agent_is_deleted, cases, semaphore, results,
                   execution_errors, notR>>

\* execute_regression, lines 158-208: the run is started and the cases are
\* handed to asyncio.gather
DispatchRun ==
    /\ rpc = "atrest"
    /\ dispatches < MaxDispatches
    /\ MayExecute(record)
    /\ ~agent_is_deleted
    /\ \E total_count \in 1..MaxCases :
          /\ regression' = StartedRecord(record, total_count, now + 1)
          /\ cases' = [i \in 1..total_count |-> "queued"]
    /\ dispatches' = dispatches + 1
    /\ last_dispatch' = "run"
    /\ record' = regression'
    /\ now' = now + 1
    /\ semaphore' = MAX_CONCURRENCY
    /\ results' = <<>>
    /\ execution_errors' = <<>>
    /\ rpc' = "gather"
    /\ UNCHANGED <<agent_is_deleted, notR>>

\* line 184: "async with semaphore" is entered, in the order of the cases
AcquireSlot ==
    /\ rpc = "gather"
    /\ Queued /= {}
    /\ Acquirable(semaphore)
    /\ \E i \in Queued :
          /\ \A j \in Queued : i <= j
          /\ cases' = [cases EXCEPT ![i] = "running"]
    /\ semaphore' = semaphore - 1
    /\ UNCHANGED <<rpc, record, regression, agent_is_deleted, results,
                   execution_errors, now, dispatches, last_dispatch, notR>>

\* lines 194-197: execute_test returns
CaseReturns ==
    /\ rpc = "gather"
    /\ \E i \in InProgress :
          cases' = [cases EXCEPT ![i] = "done"]
    /\ \E result \in ExecutionResults :
          results' = Append(results, result)
    /\ semaphore' = Released(semaphore)
    /\ UNCHANGED <<rpc, record, regression, agent_is_deleted,
                   execution_errors, now, dispatches, last_dispatch, notR>>

\* lines 198-205: execute_test raises
CaseRaises ==
    /\ rpc = "gather"
    /\ \E i \in InProgress :
          cases' = [cases EXCEPT ![i] = "done"]
    /\ execution_errors' = Append(execution_errors, <<"boom">>)
    /\ semaphore' = Released(semaphore)
    /\ UNCHANGED <<rpc, record, regression, agent_is_deleted, results,
                   now, dispatches, last_dispatch, notR>>

AllDone == \A i \in 1..Len(cases) : cases[i] = "done"

\* lines 207-235: the gather returns, the counts are stored
FinishRun ==
    /\ rpc = "gather"
    /\ AllDone
    /\ regression' = FinishedRecord(regression, Len(cases), results,
                                    execution_errors, now + 1)
    /\ record' = regression'
    /\ now' = now + 1
    /\ rpc' = "atrest"
    /\ last_dispatch' = "finished"
    /\ UNCHANGED <<agent_is_deleted, cases, semaphore, results,
                   execution_errors, dispatches, notR>>

\* lines 207-235 with store.update raising DatabaseException: nothing is
\* stored and the exception leaves execute_regression
FinishRunUpdateFails ==
    /\ rpc = "gather"
    /\ AllDone
    /\ regression' = FinishedRecord(regression, Len(cases), results,
                                    execution_errors, now + 1)
    /\ now' = now + 1
    /\ rpc' = "atrest"
    /\ last_dispatch' = "raised"
    /\ UNCHANGED <<record, agent_is_deleted, cases, semaphore, results,
                   execution_errors, dispatches, notR>>

\* AgentService.delete_agent, line 156: the agent row is soft-deleted
DeleteAgent ==
    /\ rpc \in {"atrest", "gather"}
    /\ ~agent_is_deleted
    /\ agent_is_deleted' = TRUE
    /\ UNCHANGED <<rpc, record, regression, cases, semaphore, results,
                   execution_errors, now, dispatches, last_dispatch, notR>>

\* AgentService.delete_agent, line 160: soft_delete_by_agent
SoftDeleteRegression ==
    /\ rpc \in {"atrest", "gather"}
    /\ agent_is_deleted
    /\ ~record.is_deleted
    /\ record' = [record EXCEPT !.is_deleted = TRUE]
    /\ UNCHANGED <<rpc, regression, agent_is_deleted, cases, semaphore, results,
                   execution_errors, now, dispatches, last_dispatch, notR>>

RNext ==
    \/ CreateRegression
    \/ DispatchSkipped
    \/ DispatchInactiveAgent
    \/ DispatchEmpty
    \/ DispatchRun
    \/ AcquireSlot
    \/ CaseReturns
    \/ CaseRaises
    \/ FinishRun
    \/ FinishRunUpdateFails
    \/ DeleteAgent
    \/ SoftDeleteRegression

(***************************************************************************)
(* llm_parser_service._convert_gemini_type_to_openai and                   *)
(* _convert_gemini_parameters_to_openai.  In a parameter schema a JSON     *)
(* string is [json |-> "string", chars |-> the characters], a JSON list is *)
(* [json |-> "list", items |-> the elements], and a dict is a function     *)
(* from its keys, so that str.lower() is computed character by character.  *)
(***************************************************************************)
UppercaseLetters ==
    <<"A", "B", "C", "D", "E", "F", "G", "H", "I", "J", "K", "L", "M",
      "N", "O", "P", "Q", "R", "S", "T", "U", "V", "W", "X", "Y", "Z">>

LowercaseLetters ==
    <<"a", "b", "c", "d", "e", "f", "g", "h", "i", "j", "k", "l", "m",
      "n", "o", "p", "q", "r", "s", "t", "u", "v", "w", "x", "y", "z">>

LowerChar(c) ==
    IF \E i \in 1..26 : UppercaseLetters[i] = c
    THEN LowercaseLetters[CHOOSE i \in 1..26 : UppercaseLetters[i] = c]
    ELSE c

UpperChar(c) ==
    IF \E i \in 1..26 : LowercaseLetters[i] = c
    THEN UppercaseLetters[CHOOSE i \in 1..26 : LowercaseLetters[i] = c]
    ELSE c

\* str.lower()
StrLower(chars) == [i \in 1..Len(chars) |-> LowerChar(chars[i])]

\* str.upper()
StrUpper(chars) == [i \in 1..Len(chars) |-> UpperChar(chars[i])]

JsonString(chars) == [json |-> "string", chars |-> chars]

JsonList(items) == [json |-> "list", items |-> items]

IsJsonString(v) == "json" \in DOMAIN v /\ v.json = "string"

\* lines 451-458: the type_mapping table
type_mapping ==
    (<<"B", "O", "O", "L", "E", "A", "N">> :> <<"b", "o", "o", "l", "e", "a", "n">>)
    @@ (<<"S", "T", "R", "I", "N", "G">> :> <<"s", "t", "r", "i", "n", "g">>)
    @@ (<<"O", "B", "J", "E", "C", "T">> :> <<"o", "b", "j", "e", "c", "t">>)
    @@ (<<"A", "R", "R", "A", "Y">> :> <<"a", "r", "r", "a", "y">>)
    @@ (<<"I", "N", "T", "E", "G", "E", "R">> :> <<"i", "n", "t", "e", "g", "e", "r">>)
    @@ (<<"N", "U", "M", "B", "E", "R">> :> <<"n", "u", "m", "b", "e", "r">>)

\* the converter whose fallback upper-cases
convert_gemini_type_to_openai_Upper(gemini_type) ==
    IF gemini_type \in DOMAIN type_mapping THEN type_mapping[gemini_type]
    ELSE StrUpper(gemini_type)

\* lines 438-459
convert_gemini_type_to_openai(gemini_type) ==
    IF gemini_type \in DOMAIN type_mapping THEN type_mapping[gemini_type]
    ELSE StrLower(gemini_type)

RECURSIVE convert_gemini_parameters_to_openai_TopOnly(_)
\* the converter that copies the nested schemas as they are
convert_gemini_parameters_to_openai_TopOnly(parameters) ==
    IF ~IsDict(parameters) THEN parameters
    ELSE [key \in DOMAIN parameters |->
            IF key = "type" /\ IsJsonString(parameters[key])
            THEN JsonString(convert_gemini_type_to_openai(parameters[key].chars))
            ELSE parameters[key]]

RECURSIVE convert_gemini_parameters_to_openai(_)
\* lines 462-498
convert_gemini_parameters_to_openai(parameters) ==
    IF ~IsDict(parameters) THEN parameters
    ELSE [key \in DOMAIN parameters |->
            IF key = "type" /\ IsJsonString(parameters[key])
            THEN JsonString(convert_gemini_type_to_openai(parameters[key].chars))
            ELSE IF key = "properties" /\ IsDict(parameters[key])
            THEN [prop_name \in DOMAIN parameters[key] |->
                     convert_gemini_parameters_to_openai(parameters[key][prop_name])]
            ELSE IF key = "items" /\ IsDict(parameters[key])
            THEN convert_gemini_parameters_to_openai(parameters[key])
            ELSE parameters[key]]

(***************************************************************************)
(* The parameter schemas the converter is run on.                          *)
(***************************************************************************)
\* type names in upper, lower and mixed case, known and unknown
TypeNames ==
    { <<"S", "T", "R", "I", "N", "G">>, <<"s", "t", "r", "i", "n", "g">>,
      <<"S", "t", "r", "i", "n", "g">>, <<"I", "N", "T", "E", "G", "E", "R">>,
      <<"B", "o", "o", "l", "e", "a", "n">>, <<"n", "u", "m", "b", "e", "r">>,
      <<"E", "N", "U", "M">>, <<"n", "u", "l", "l">> }

\* a description, whose capitals are to be kept
SomeDescription == JsonString(<<"A", " ", "C", "i", "t", "y">>)

\* schemas without nested schemas: a type name, a type that is not a string,
\* no type at all, keys that are copied
LeafSchemas ==
    { [type |-> JsonString(t)] : t \in TypeNames }
        \cup { [type |-> JsonList(<<JsonString(<<"S", "T", "R", "I", "N", "G">>)>>)],
               EmptyDict,
               [type |-> JsonString(<<"S", "T", "R", "I", "N", "G">>),
                description |-> SomeDescription,
                enum |-> JsonList(<<JsonString(<<"N", "Y", "C">>)>>)],
               [type |-> JsonString(<<"A", "R", "R", "A", "Y">>),
                items |-> JsonList(<<[type |-> JsonString(<<"S", "T", "R", "I", "N", "G">>)]>>)],
               [type |-> JsonString(<<"o", "b", "j", "e", "c", "t">>),
                properties |-> JsonList(<<>>)] }

ObjectOf(child) ==
    [type |-> JsonString(<<"O", "B", "J", "E", "C", "T">>),
     properties |-> [city |-> child,
                     type |-> [type |-> JsonString(<<"N", "U", "M", "B", "E", "R">>)]],
     required |-> JsonList(<<JsonString(<<"c", "i", "t", "y">>)>>)]

ArrayOf(child) ==
    [type |-> JsonString(<<"A", "r", "r", "a", "y">>), items |-> child]

RECURSIVE SchemasOfDepth(_)
\* the schemas nested through properties and items to depth d at most
SchemasOfDepth(d) ==
    IF d = 0 THEN LeafSchemas
    ELSE SchemasOfDepth(d - 1)
            \cup { ObjectOf(child) : child \in SchemasOfDepth(d - 1) }
            \cup { ArrayOf(child) : child \in SchemasOfDepth(d - 1) }

Schemas == SchemasOfDepth(MaxDepth)

TInit ==
    /\ tpc = "given"
    /\ schema \in Schemas
    /\ once = EmptyDict
    /\ twice = EmptyDict

TIdle ==
    /\ tpc = "idle"
    /\ schema = EmptyDict
    /\ once = EmptyDict
    /\ twice = EmptyDict

\* lines 559-563: the declared parameters are converted
ConvertOnce ==
    /\ tpc = "given"
    /\ once' = convert_gemini_parameters_to_openai(schema)
    /\ tpc' = "once"
    /\ UNCHANGED <<schema, twice, notT>>

\* the converted schema is converted again
ConvertAgain ==
    /\ tpc = "once"
    /\ twice' = convert_gemini_parameters_to_openai(once)
    /\ tpc' = "twice"
    /\ UNCHANGED <<schema, once, notT>>

TNext ==
    \/ ConvertOnce
    \/ ConvertAgain

(***************************************************************************)
(* llm_execution_service.execute_llm_test, lines 207-257: the model        *)
(* response is formatted.  A part is [kind |-> its class, ...]; text is a  *)
(* sequence of tokens; the arguments of a tool call are a str, a dict or   *)
(* an object json.dumps cannot serialise.                                  *)
(***************************************************************************)
Placeholder == <<"[No response content or tool calls]">>

TextPart(content) == [kind |-> "TextPart", content |-> content]

ToolCallPart(tool_name, tool_call_id, args) ==
    [kind |-> "ToolCallPart", tool_name |-> tool_name,
     tool_call_id |-> tool_call_id, args |-> args]

ThinkingPart == [kind |-> "ThinkingPart", content |-> <<"hm">>]

\* the JSON documents the arguments are drawn from, as compact text
CompactJson == {<<"{}">>, <<"{\"q\": 1}">>}

\* json.dumps(json.loads(text), indent=2)
Indented(text) ==
    IF text = <<"{}">> THEN <<"{}">> ELSE <<"{\n  \"q\": 1\n}">>

\* lines 241-251
FormattedArgs(args) ==
    IF args.py = "str"
    THEN IF args.text \in CompactJson THEN Indented(args.text) ELSE args.text
    ELSE IF args.py = "dict" THEN Indented(args.compact)
    ELSE <<"<object>">>

NumberText(i) == <<"1", "2", "3", "4", "5">>[i]

\* the extraction that keeps only the last text part
ExtractPart_LastText(acc, part) ==
    IF part.kind = "TextPart" /\ part.content /= <<>>
    THEN [acc EXCEPT !.response_content = part.content]
    ELSE IF part.kind = "ToolCallPart"
    THEN [acc EXCEPT !.tool_calls =
              Append(@, [tool_name |-> part.tool_name,
                         tool_call_id |-> part.tool_call_id,
                         args |-> part.args])]
    ELSE acc

\* lines 212-227: one part of the response
ExtractPart(acc, part) ==
    IF part.kind = "TextPart" /\ part.content /= <<>>
    THEN [acc EXCEPT !.response_content = @ \o part.content]
    ELSE IF part.kind = "ToolCallPart"
    THEN [acc EXCEPT !.tool_calls =
              Append(@, [tool_name |-> part.tool_name,
                         tool_call_id |-> part.tool_call_id,
                         args |-> part.args])]
    ELSE acc

RECURSIVE FormatToolCalls(_, _, _)
\* lines 237-254: the entries from number i on
FormatToolCalls(calls, i, n) ==
    IF Len(calls) = 0 THEN <<>>
    ELSE <<"Tool Call ", NumberText(i), ":\n",
           "  Name: ", Head(calls).tool_name, "\n",
           "  ID: ", Head(calls).tool_call_id, "\n",
           "  Arguments: ">> \o FormattedArgs(Head(calls).args) \o <<"\n">>
            \o (IF i < n THEN <<"\n">> ELSE <<>>)
            \o FormatToolCalls(Tail(calls), i + 1, n)

\* lines 229-259
FormatResponse(content, calls) ==
    LET with_text == IF content /= <<>> THEN content ELSE <<>>
        with_calls ==
            IF Len(calls) > 0
            THEN (IF with_text /= <<>> THEN with_text \o <<"\n\n">> ELSE with_text)
                     \o <<"=== Tool Calls ===\n">>
                     \o FormatToolCalls(calls, 1, Len(calls))
            ELSE with_text
    IN  IF with_calls = <<>> THEN Placeholder ELSE with_calls

(***************************************************************************)
(* The responses the formatting is run on.                                 *)
(***************************************************************************)
ResponseTextParts ==
    { TextPart(<<"a">>), TextPart(<<"b">>), TextPart(<<>>), TextPart(Placeholder) }

ResponseToolCallParts ==
    { ToolCallPart("f", "call_1", [py |-> "str", text |-> <<"{\"q\": 1}">>]),
      ToolCallPart("g", "call_2", [py |-> "dict", compact |-> <<"{}">>]),
      ToolCallPart("f", "call_3", [py |-> "str", text |-> <<"not json">>]) }

FInit ==
    /\ fpc = "parts"
    /\ model_response = <<>>
    /\ response_content = <<>>
    /\ tool_calls = <<>>
    /\ formatted_response = <<>>

FIdle ==
    /\ fpc = "idle"
    /\ model_response = <<>>
    /\ response_content = <<>>
    /\ tool_calls = <<>>
    /\ formatted_response = <<>>

\* one turn of the loop of lines 212-227 over the next part of the response
TakePart(part) ==
    /\ fpc = "parts"
    /\ Len(model_response) < MaxResponseParts
    /\ model_response' = Append(model_response, part)
    /\ \E acc \in {ExtractPart([response_content |-> response_content,
                               tool_calls |-> tool_calls], part)} :
          /\ response_content' = acc.response_content
          /\ tool_calls' = acc.tool_calls
    /\ UNCHANGED <<fpc, formatted_response, notF>>

TakeTextPart ==
    /\ fpc = "parts"
    /\ \E part \in ResponseTextParts : TakePart(part)

TakeToolCallPart ==
    /\ fpc = "parts"
    /\ \E part \in ResponseToolCallParts : TakePart(part)

TakeOtherPart ==
    /\ fpc = "parts"
    /\ TakePart(ThinkingPart)

\* lines 229-278: the loop is left and the response is formatted
Format ==
    /\ fpc = "parts"
    /\ formatted_response' = FormatResponse(response_content, tool_calls)
    /\ fpc' = "formatted"
    /\ UNCHANGED <<model_response, response_content, tool_calls, notF>>

FNext ==
    \/ TakeTextPart
    \/ TakeToolCallPart
    \/ TakeOtherPart
    \/ Format

(***************************************************************************)
(* Conversion passes run by concurrent replay tasks.  Each call of         *)
(* _convert_gemini_to_openai_format holds its contents, its output list    *)
(* and its tool_call_state in locals of its own; the calls are interleaved *)
(* between two content entries.                                            *)
(***************************************************************************)
Tasks == {"A", "B"}

\* the local tool_call_state of a call that has not created it or has returned
NoState == [counter |-> 0, pending |-> EmptyDict, pending_by_name |-> EmptyDict]

PassEntries ==
    { [role |-> "model", parts |-> <<CallF>>],
      [role |-> "model", parts |-> <<CallG>>],
      [role |-> "user", parts |-> <<RespF>>],
      [role |-> "user", parts |-> << [text |-> <<"a">>] >>] }

PassContents == SeqsUpTo(PassEntries, MaxEntries)

\* a correlation state kept at module level: a call finds what another call
\* in progress has left there
NewToolCallState_ModuleLevel(ps, task) ==
    IF \E other \in Tasks \ {task} : ps[other].pc = "converting"
    THEN ps[CHOOSE other \in Tasks \ {task} : ps[other].pc = "converting"].state
    ELSE FreshToolCallState

\* lines 604-609: the dict literal is evaluated anew in every call
NewToolCallState(ps, task) == FreshToolCallState

\* lines 611-625: one content entry of the call's own contents
EntryConverted(pass) ==
    LET content == pass.contents[pass.converted + 1]
        c == ConvertParts(FreshLocals(pass.state), Get(content, "parts", <<>>))
    IN  [pass EXCEPT
            !.converted = @ + 1,
            !.state = c.state,
            !.openai_messages =
                AppendReturned(@, PrimaryMessage(c, MapRole(Get(content, "role", "user"))),
                               c.extra_messages)]

CInit ==
    /\ passes \in [Tasks -> { [pc |-> "called", contents |-> cs, converted |-> 0,
                               state |-> NoState, openai_messages |-> <<>>] :
                                 cs \in PassContents }]

CIdle ==
    /\ passes = [task \in Tasks |->
                    [pc |-> "idle", contents |-> <<>>, converted |-> 0,
                     state |-> NoState, openai_messages |-> <<>>]]

\* lines 583-609: the call is entered and creates its tool_call_state
BeginPass ==
    /\ \E task \in Tasks :
          /\ passes[task].pc = "called"
          /\ passes' = [passes EXCEPT
                           ![task].pc = "converting",
                           ![task].state = NewToolCallState(passes, task)]
    /\ UNCHANGED notC

\* lines 611-625: one turn of the loop over contents
ConvertEntry ==
    /\ \E task \in Tasks :
          /\ passes[task].pc = "converting"
          /\ passes[task].converted < Len(passes[task].contents)
          /\ passes' = [passes EXCEPT ![task] = EntryConverted(passes[task])]
    /\ UNCHANGED notC

\* lines 627-660: the call returns; its tool_call_state is gone
EndPass ==
    /\ \E task \in Tasks :
          /\ passes[task].pc = "converting"
          /\ passes[task].converted = Len(passes[task].contents)
          /\ passes' = [passes EXCEPT ![task].pc = "returned",
                                      ![task].state = NoState]
    /\ UNCHANGED notC

CNext ==
    \/ BeginPass
    \/ ConvertEntry
    \/ EndPass

PIdle ==
    /\ ppc = "idle"
    /\ raw = NotADict
    /\ via = "direct"
    /\ source = "undetected"
    /\ canonical = EmptyDict
    /\ exc = None
    /\ outcome = NoOutcome
    /\ trace = <<>>
    /\ replay_messages = <<>>

InitGemini == GInit /\ PIdle /\ SIdle /\ RIdle /\ TIdle /\ FIdle /\ CIdle

SpecGemini == InitGemini /\ [][GNext]_vars

Init == PInit /\ GInit /\ SIdle /\ RIdle /\ TIdle /\ FIdle /\ CIdle

Next == PNext

Spec == Init /\ [][Next]_vars

InitService == SInit /\ GInit /\ PIdle /\ RIdle /\ TIdle /\ FIdle /\ CIdle

SpecService == InitService /\ [][SNext]_vars

InitRegression == RInit /\ GInit /\ PIdle /\ SIdle /\ TIdle /\ FIdle /\ CIdle

SpecRegression == InitRegression /\ [][RNext]_vars

InitTypes == TInit /\ GInit /\ PIdle /\ SIdle /\ RIdle /\ FIdle /\ CIdle

SpecTypes == InitTypes /\ [][TNext]_vars

InitFormat == FInit /\ GInit /\ PIdle /\ SIdle /\ RIdle /\ TIdle /\ CIdle

SpecFormat == InitFormat /\ [][FNext]_vars

InitPasses == CInit /\ GInit /\ PIdle /\ SIdle /\ RIdle /\ TIdle /\ FIdle

SpecPasses == InitPasses /\ [][CNext]_vars

(***************************************************************************)
(* The conversion pass seen from outside: the parts that went in and the   *)
(* tool calls and tool messages that came out, in order.                   *)
(***************************************************************************)
RECURSIVE FlatParts(_)
FlatParts(cs) ==
    IF Len(cs) = 0 THEN <<>> ELSE Head(cs).parts \o FlatParts(Tail(cs))

IsCallPart(p) == "text" \notin DOMAIN p /\ "functionCall" \in DOMAIN p

IsResponsePart(p) ==
    /\ "text" \notin DOMAIN p
    /\ "functionCall" \notin DOMAIN p
    /\ "functionResponse" \in DOMAIN p

IsTextPart(p) == "text" \in DOMAIN p

IsOtherPart(p) == ~IsTextPart(p) /\ ~IsCallPart(p) /\ ~IsResponsePart(p)

CallPartsIn == SelectSeq(FlatParts(contents), IsCallPart)

ResponsePartsIn == SelectSeq(FlatParts(contents), IsResponsePart)

RECURSIVE ToolCallsOf(_)
ToolCallsOf(ms) ==
    IF Len(ms) = 0 THEN <<>>
    ELSE Get(Head(ms), "tool_calls", <<>>) \o ToolCallsOf(Tail(ms))

IsToolMessage(m) == m.role = "tool"

\* every tool call emitted so far, those of the entry in progress included
AllToolCalls == ToolCallsOf(openai_messages) \o cur.tool_calls

\* every tool message emitted so far, those of the entry in progress included
AllToolMessages == SelectSeq(openai_messages, IsToolMessage) \o cur.extra_messages

FunctionNames == {"f", "g"}

ResponseName(p) == Get(p.functionResponse, "name", "")

ResponseHasId(p) == IsUsableId(Get(p.functionResponse, "id", None))

\* the tool_call_ids handed, in order, to the responses naming function f
RECURSIVE IdsGivenTo(_, _, _)
IdsGivenTo(f, resps, msgs) ==
    IF Len(resps) = 0 \/ Len(msgs) = 0 THEN <<>>
    ELSE (IF ResponseName(Head(resps)) = f /\ "tool_call_id" \in DOMAIN Head(msgs)
          THEN <<Head(msgs).tool_call_id>> ELSE <<>>)
             \o IdsGivenTo(f, Tail(resps), Tail(msgs))

\* the ids, in call order, of the calls made to function f
RECURSIVE IdsOfCallsTo(_, _)
IdsOfCallsTo(f, calls) ==
    IF Len(calls) = 0 THEN <<>>
    ELSE (IF Head(calls).function.name = f THEN <<Head(calls).id>> ELSE <<>>)
             \o IdsOfCallsTo(f, Tail(calls))

NoResponseCarriesId ==
    \A i \in 1..Len(ResponsePartsIn) : ~ResponseHasId(ResponsePartsIn[i])

IsPrefix(a, b) == Len(a) <= Len(b) /\ a = SubSeq(b, 1, Len(a))

QueueOf(state, name) == Get(state.pending_by_name, name, <<>>)

RECURSIVE Occurrences(_, _)
Occurrences(q, x) ==
    IF Len(q) = 0 THEN 0
    ELSE (IF Head(q) = x THEN 1 ELSE 0) + Occurrences(Tail(q), x)

\* a step of the parts loop that consumed a function-response part
ResponseConsumed ==
    /\ gpc = "parts" /\ gpc' = "parts"
    /\ Len(cur'.extra_messages) = Len(cur.extra_messages) + 1

C5_Step ==
    LET parts == contents'[Len(contents')].parts
        fr == parts[Len(parts)].functionResponse
        name == Get(fr, "name", "")
        rid == Get(fr, "id", None)
        st == tool_call_state
        st2 == tool_call_state'
        msg == cur'.extra_messages[Len(cur'.extra_messages)]
    IN  IF IsUsableId(rid) /\ Strip(rid) \in DOMAIN st.pending
        THEN LET id == Strip(rid)
                 owner == st.pending[id]
             IN  /\ "tool_call_id" \in DOMAIN msg /\ msg.tool_call_id = id
                 /\ id \notin DOMAIN st2.pending
                 /\ \A x \in DOMAIN st2.pending :
                       x \in DOMAIN st.pending /\ st2.pending[x] = st.pending[x]
                 /\ DOMAIN st.pending = DOMAIN st2.pending \cup {id}
                 /\ Occurrences(QueueOf(st2, owner), id)
                       = Occurrences(QueueOf(st, owner), id) - 1
                 /\ Len(QueueOf(st2, owner)) = Len(QueueOf(st, owner)) - 1
                 /\ \A n \in FunctionNames \ {owner} :
                       QueueOf(st2, n) = QueueOf(st, n)
        ELSE IF Len(QueueOf(st, name)) > 0
        THEN LET id == Head(QueueOf(st, name))
             IN  /\ "tool_call_id" \in DOMAIN msg /\ msg.tool_call_id = id
                 /\ QueueOf(st2, name) = Tail(QueueOf(st, name))
                 /\ id \notin DOMAIN st2.pending
                 /\ \A n \in FunctionNames \ {name} :
                       QueueOf(st2, n) = QueueOf(st, n)
        ELSE /\ "tool_call_id" \notin DOMAIN msg
             /\ st2 = st

C6_UniqueToolCallIds ==
    \A i, j \in 1..Len(AllToolCalls) :
        i /= j => AllToolCalls[i].id /= AllToolCalls[j].id

\* the tool_calls of the messages before position i whose role is assistant
AssistantCallIdsBefore(ms, i) ==
    { ms[j].tool_calls[k].id :
          <<j, k>> \in { <<j, k>> \in (1..(i - 1)) \X (1..MaxParts + 1) :
                           /\ ms[j].role = "assistant"
                           /\ "tool_calls" \in DOMAIN ms[j]
                           /\ k <= Len(ms[j].tool_calls) } }

\* C7: every tool message of the canonical list that has a tool_call_id
\* refers to an id listed in the tool_calls of an assistant-role message
\* earlier in the list.
C7_ToolRefersToEarlierAssistant ==
    \A i \in 1..Len(openai_messages) :
        (openai_messages[i].role = "tool"
            /\ "tool_call_id" \in DOMAIN openai_messages[i])
        => openai_messages[i].tool_call_id
               \in AssistantCallIdsBefore(openai_messages, i)

(***************************************************************************)
(* What a content entry has to contribute, read off its parts alone.       *)
(***************************************************************************)
IsTextLike(p) == IsTextPart(p) \/ IsOtherPart(p)

SegmentOf(p) == IF IsTextPart(p) THEN p.text ELSE DumpsPart(p)

RECURSIVE MapSegments(_)
MapSegments(ps) ==
    IF Len(ps) = 0 THEN <<>> ELSE <<SegmentOf(Head(ps))>> \o MapSegments(Tail(ps))

RECURSIVE CallNames(_)
CallNames(ps) ==
    IF Len(ps) = 0 THEN <<>>
    ELSE <<Get(Head(ps).functionCall, "name", "")>> \o CallNames(Tail(ps))

RECURSIVE ResponseContents(_)
ResponseContents(ps) ==
    IF Len(ps) = 0 THEN <<>>
    ELSE <<DumpsResponse(ResponseName(Head(ps)), Head(ps).functionResponse)>>
             \o ResponseContents(Tail(ps))

\* the items an entry with these parts must put out: one text segment per
\* text part and per part of unrecognized shape, one tool call per function
\* call, one tool message per function response
ExpectedItems(parts) ==
    [segments |-> MapSegments(SelectSeq(parts, IsTextLike)),
     calls |-> CallNames(SelectSeq(parts, IsCallPart)),
     responses |-> ResponseContents(SelectSeq(parts, IsResponsePart))]

RECURSIVE NamesOfCalls(_)
NamesOfCalls(tcs) ==
    IF Len(tcs) = 0 THEN <<>>
    ELSE <<Head(tcs).function.name>> \o NamesOfCalls(Tail(tcs))

RECURSIVE ContentsOf(_)
ContentsOf(ms) ==
    IF Len(ms) = 0 THEN <<>> ELSE <<Head(ms).content>> \o ContentsOf(Tail(ms))

\* the items found in what one call of the converter returned
ReturnedItems(ret, segments) ==
    [segments |-> IF Len(ret.message) = 0 THEN <<>> ELSE segments,
     text |-> IF Len(ret.message) = 0 THEN <<>>
              ELSE Get(ret.message[1], "content", <<>>),
     calls |-> IF Len(ret.message) = 0 THEN <<>>
               ELSE NamesOfCalls(Get(ret.message[1], "tool_calls", <<>>)),
     responses |-> ContentsOf(ret.extra_messages)]

RECURSIVE EntryMessageCount(_)
\* the number of canonical messages the closed entries must have produced
EntryMessageCount(cs) ==
    IF Len(cs) = 0 THEN 0
    ELSE LET e == ExpectedItems(Head(cs).parts)
         IN  (IF Len(e.segments) + Len(e.calls) > 0 THEN 1 ELSE 0)
                 + Len(e.responses) + EntryMessageCount(Tail(cs))

ClosedEntries ==
    IF gpc = "parts" THEN SubSeq(contents, 1, Len(contents) - 1) ELSE contents

\* C8: no part is dropped.  While an entry is converted every part consumed
\* so far has contributed exactly one item (a text segment, a tool call or a
\* standalone tool message); what the converter returns for an entry holds
\* the text of every text part and the JSON of every part of unrecognized
\* shape joined in order, one tool call per function call and one tool
\* message per function response, matched or not; and all of it is in the
\* conversation output.
C8_NoPartDropped ==
    /\ gpc = "parts" =>
          LET parts == contents[Len(contents)].parts
              e == ExpectedItems(parts)
          IN  /\ Len(cur.text_segments) + Len(cur.tool_calls)
                     + Len(cur.extra_messages) = Len(parts)
              /\ cur.text_segments = e.segments
              /\ NamesOfCalls(cur.tool_calls) = e.calls
              /\ ContentsOf(cur.extra_messages) = e.responses
    /\ (gpc /= "parts" /\ Len(contents) > 0) =>
          LET e == ExpectedItems(contents[Len(contents)].parts)
              r == ReturnedItems(last_ret, e.segments)
          IN  /\ r.text = Join(e.segments)
              /\ r.calls = e.calls
              /\ r.responses = e.responses
              /\ (Len(e.segments) + Len(e.calls) > 0) => Len(last_ret.message) = 1
    /\ Len(openai_messages) = EntryMessageCount(ClosedEntries)
    /\ Len(AllToolMessages) = Len(ResponsePartsIn)
    /\ Len(AllToolCalls) = Len(CallPartsIn)

\* an entry held a text part, a part of unrecognized shape and a function
\* response nothing was pending for: the text and the JSON are in the
\* message, the response is a tool message without tool_call_id
C8_Witness ==
    /\ gpc = "converted"
    /\ contents = << [role |-> "user",
                      parts |-> << [text |-> <<"a">>], [inlineData |-> "img"],
                                   RespF >>] >>
    /\ openai_messages =
          << [role |-> "user",
              content |-> <<"a", "\n", "{", "inlineData", "img", "}">>],
             [role |-> "tool",
              content |-> <<"{name:", "f", "response:", "ok", "}">>] >>

(***************************************************************************)
(* The split of the canonical message list, stated by position.            *)
(***************************************************************************)
CanonicalMessages == Get(canonical, "messages", <<>>)

HasReturned == outcome.kind = "return"

SystemPositions(ms) == { i \in 1..Len(ms) : Get(ms[i], "role", None) = "system" }

NonAssistantPositions(ms) ==
    { i \in 1..Len(ms) : Get(ms[i], "role", None) /= "assistant" }

Least(S) == CHOOSE i \in S : \A j \in S : i <= j

Greatest(S) == CHOOSE i \in S : \A j \in S : j <= i

\* the extracted positions: at most one system and one last non-assistant
ExtractedPositions(ms) ==
    (IF SystemPositions(ms) = {} THEN {} ELSE { Least(SystemPositions(ms)) })
        \cup (IF NonAssistantPositions(ms) = {} THEN {}
              ELSE { Greatest(NonAssistantPositions(ms)) })

\* the k-th position of ms that is not in X
KthKept(ms, X, k) ==
    CHOOSE i \in (1..Len(ms)) \ X : Cardinality((1..i) \ X) = k

WithoutPositions(ms, X) ==
    [k \in 1..(Len(ms) - Cardinality(X)) |-> ms[KthKept(ms, X, k)]]

\* C1: after parse and build_replay_messages the replay list has the
\* messages of the canonical list, one for one and in the same order: the
\* extracted system turn, every middle message unchanged, and the extracted
\* last non-assistant turn as a user turn; none duplicated, none dropped.
C1_RoundTripPartition ==
    (ppc = "replayed" /\ via = "service") =>
        LET ms == CanonicalMessages
            data == outcome.data
        IN  /\ Len(replay_messages) = Len(ms)
            /\ \A i \in 1..Len(ms) :
                   IF NonAssistantPositions(ms) /= {}
                      /\ i = Greatest(NonAssistantPositions(ms))
                   THEN replay_messages[i] =
                            [role |-> "user", content |-> data.last_user_message]
                   ELSE IF i \in ExtractedPositions(ms)
                   THEN replay_messages[i] =
                            [role |-> "system", content |-> data.system_prompt]
                   ELSE replay_messages[i] = ms[i]

\* C2: whenever parse_llm_raw_data returns, middle_messages is the canonical
\* list with exactly the extracted positions removed and every other message
\* kept in order, so a message equal to an extracted one stays.
C2_MiddleByPosition ==
    HasReturned =>
        outcome.data.middle_messages =
            WithoutPositions(CanonicalMessages, ExtractedPositions(CanonicalMessages))

\* a returned split whose middle holds a copy of the extracted last turn
C2_Witness ==
    /\ HasReturned
    /\ LET ms == CanonicalMessages
       IN  /\ NonAssistantPositions(ms) /= {}
           /\ \E i \in (1..Len(ms)) \ ExtractedPositions(ms) :
                  ms[i] = ms[Greatest(NonAssistantPositions(ms))]
           /\ \E k \in 1..Len(outcome.data.middle_messages) :
                  outcome.data.middle_messages[k]
                      = ms[Greatest(NonAssistantPositions(ms))]

\* C3: system_prompt is the content of the first system message (empty when
\* there is none), last_user_message comes from the last message whose role
\* is not assistant, and middle_messages is shorter than the list by the
\* number of distinct extracted positions (one when both scans coincide).
C3_ExtractedTurns ==
    HasReturned =>
        LET ms == CanonicalMessages
            data == outcome.data
        IN  /\ data.system_prompt =
                   IF SystemPositions(ms) = {} THEN <<>>
                   ELSE Get(ms[Least(SystemPositions(ms))], "content", <<>>)
            /\ data.last_user_message =
                   IF NonAssistantPositions(ms) = {} THEN <<>>
                   ELSE LET m == ms[Greatest(NonAssistantPositions(ms))]
                        IN  IF Get(m, "role", None) = "tool" THEN DumpsMessage(m)
                            ELSE Get(m, "content", <<>>)
            /\ Len(data.middle_messages)
                   = Len(ms) - Cardinality(ExtractedPositions(ms))

\* both scans select the same position of a list of several messages
C3_Witness ==
    /\ HasReturned
    /\ LET ms == CanonicalMessages
       IN  /\ Len(ms) > 1
           /\ SystemPositions(ms) /= {}
           /\ Least(SystemPositions(ms)) = Greatest(NonAssistantPositions(ms))
           /\ Len(outcome.data.middle_messages) = Len(ms) - 1

ParsedLLMDataFields ==
    {"middle_messages", "tools", "model_name", "model_settings", "system_prompt",
     "last_user_message"}

KnownFormatOf(c) ==
    IF ~IsDict(c) \/ "attributes" \notin DOMAIN c THEN "unknown"
    ELSE IF "gen_ai.input.messages" \in DOMAIN c.attributes THEN "pydantic_ai"
    ELSE IF BodyKey \notin DOMAIN c.attributes THEN "unknown"
    ELSE LET body == c.attributes[BodyKey]
         IN  IF {"messages", "model"} \subseteq DOMAIN body THEN "openai"
             ELSE IF {"contents", "systemInstruction"} \cap DOMAIN body /= {}
             THEN "gemini"
             ELSE "unknown"

\* a capture of a known format that breaks one of that format's rules
ViolatesFormatRules(c) ==
    LET format == KnownFormatOf(c)
    IN  \/ /\ format = "openai"
           /\ LET body == c.attributes[BodyKey]
              IN  \/ \E i \in 1..Len(body.messages) :
                         \/ "content" \notin DOMAIN body.messages[i]
                         \/ "role" \notin DOMAIN body.messages[i]
                         \/ body.messages[i].role \notin OpenAIRoles
                  \/ ~IsStr(body.model)
                  \/ body.model = ""
        \/ /\ format = "gemini"
           /\ LET body == c.attributes[BodyKey]
              IN  /\ "contents" \in DOMAIN body
                  /\ \E i \in 1..Len(body.contents) :
                         \/ "parts" \notin DOMAIN body.contents[i]
                         \/ ~IsList(body.contents[i].parts)
        \/ /\ format = "pydantic_ai"
           /\ LET ms == c.attributes["gen_ai.input.messages"]
              IN  \/ \E i \in 1..Len(ms) :
                         \/ "role" \notin DOMAIN ms[i]
                         \/ "parts" \notin DOMAIN ms[i]
                         \/ ~IsList(ms[i].parts)
                  \/ "gen_ai.request.model" \notin DOMAIN c.attributes

ConversionRan ==
    \E i \in 1..Len(trace) : trace[i] \in {"convert_gemini", "convert_pydantic_ai"}

TraceHas(step) == \E i \in 1..Len(trace) : trace[i] = step

ParseFinished == TraceHas("detect") /\ ppc \in {"raised", "returned", "replayed"}

\* the attributes hold neither field, or the HTTP body is of no known shape
UnknownFormatCapture(c) ==
    /\ IsDict(c)
    /\ "attributes" \in DOMAIN c
    /\ "gen_ai.input.messages" \notin DOMAIN c.attributes
    /\ \/ BodyKey \notin DOMAIN c.attributes
       \/ LET body == c.attributes[BodyKey]
          IN  /\ ~({"messages", "model"} \subseteq DOMAIN body)
              /\ "contents" \notin DOMAIN body
              /\ "systemInstruction" \notin DOMAIN body

\* C11: a capture whose attributes hold neither the HTTP body nor the input
\* messages, or whose HTTP body has neither (messages and model) nor
\* contents nor systemInstruction, never gets past the format branch of
\* parse_llm_raw_data: no result is returned, and the call ends in ValueError
\* without the extraction having run.
C11_UnknownFormatRejected ==
    UnknownFormatCapture(raw) =>
        /\ outcome.kind /= "return"
        /\ ppc \notin {"converted", "returned", "replayed"}
        /\ ~TraceHas("extract")
        /\ ParseFinished => outcome = Raised("ValueError", "Invalid raw data format")

\* parse_llm_raw_data, called on a body of unknown shape, raised ValueError
C11_Witness ==
    /\ via = "direct"
    /\ raw = HttpCapture([prompt |-> "a"])
    /\ source = "http_body"
    /\ ppc = "raised"
    /\ outcome.kind = "raise"
    /\ outcome.error = "ValueError"

\* C12: every ParsedLLMData returned has a non-empty model_name and comes
\* from a non-empty canonical message list; once the extraction has run on a
\* canonical body with no messages or an empty model name, the call is on
\* its way to ValueError and ends there.
C12_NonEmptyModelAndMessages ==
    /\ HasReturned =>
          /\ outcome.data.model_name /= ""
          /\ outcome.data.model_name = Get(canonical, "model", "")
          /\ Len(CanonicalMessages) > 0
    /\ (TraceHas("extract")
           /\ (Len(CanonicalMessages) = 0 \/ Get(canonical, "model", "") = "")) =>
          /\ ppc \in {"except", "raised"}
          /\ ppc = "raised" => outcome = Raised("ValueError", "Invalid raw data format")

\* a Gemini capture whose only content is a system instruction without text
\* converts to zero messages; the call ended in ValueError after extraction
C12_Witness ==
    /\ source = "http_body"
    /\ "contents" \in DOMAIN raw.attributes[BodyKey]
    /\ TraceHas("convert_gemini")
    /\ TraceHas("extract")
    /\ Len(CanonicalMessages) = 0
    /\ Get(canonical, "model", "") /= ""
    /\ ppc = "raised"
    /\ outcome.error = "ValueError"

\* the class of a capture, first match first: input messages, then an HTTP
\* body with messages and model, then one with contents or systemInstruction
FirstMatch(c) ==
    LET a == c.attributes
    IN  IF "gen_ai.input.messages" \in DOMAIN a THEN "pydantic_ai"
        ELSE IF BodyKey \notin DOMAIN a THEN "unknown"
        ELSE IF "messages" \in DOMAIN a[BodyKey] /\ "model" \in DOMAIN a[BodyKey]
        THEN "openai"
        ELSE IF "contents" \in DOMAIN a[BodyKey]
                \/ "systemInstruction" \in DOMAIN a[BodyKey]
        THEN "gemini"
        ELSE "unknown"

\* C13: detection is ordered and the first match wins.  Once the data source
\* is detected it is pydantic_ai whenever gen_ai.input.messages is present,
\* whatever else is; and the branch taken after it is the pydantic_ai
\* conversion for such a capture, no conversion at all for an HTTP body with
\* messages and model (whatever else it has), the Gemini conversion for a
\* body with contents or systemInstruction, and none for any other capture.
C13_FirstMatchWins ==
    /\ source /= "undetected" =>
          source = IF FirstMatch(raw) = "pydantic_ai" THEN "pydantic_ai"
                   ELSE IF BodyKey \in DOMAIN raw.attributes THEN "http_body"
                   ELSE "unknown"
    /\ TraceHas("convert_pydantic_ai") => FirstMatch(raw) = "pydantic_ai"
    /\ TraceHas("convert_gemini") => FirstMatch(raw) = "gemini"
    /\ (source /= "undetected" /\ ppc \notin {"detected"}) =>
          /\ FirstMatch(raw) = "pydantic_ai" => TraceHas("convert_pydantic_ai")
          /\ FirstMatch(raw) = "gemini" => TraceHas("convert_gemini")
          /\ FirstMatch(raw) = "unknown" => ppc \in {"except", "raised"}
          /\ (FirstMatch(raw) = "openai" /\ ppc \notin {"except", "raised"}) =>
                canonical = raw.attributes[BodyKey]

\* a capture with input messages and an HTTP body went the pydantic_ai way
C13_Witness ==
    /\ IsDict(raw)
    /\ "attributes" \in DOMAIN raw
    /\ {"gen_ai.input.messages", BodyKey} \subseteq DOMAIN raw.attributes
    /\ source = "pydantic_ai"
    /\ TraceHas("convert_pydantic_ai")
    /\ HasReturned
    /\ CanonicalMessages = << [role |-> "user", content |-> <<"p">>] >>

\* C14: build_replay_messages is a plain concatenation.  Its result has a
\* system message first iff system_prompt is non-empty, then the middle
\* messages unchanged and in order, then a user message iff user_message is
\* non-empty; the length is len(middle_messages) plus one per non-empty
\* slot, nothing is reordered and nothing is deduplicated.
C14_ReplayIsConcatenation ==
    ppc = "replayed" =>
        LET sp == outcome.data.system_prompt
            mm == outcome.data.middle_messages
            um == outcome.data.last_user_message
            s == IF sp /= <<>> THEN 1 ELSE 0
            u == IF um /= <<>> THEN 1 ELSE 0
        IN  /\ Len(replay_messages) = s + Len(mm) + u
            /\ s = 1 => replay_messages[1] = [role |-> "system", content |-> sp]
            /\ \A k \in 1..Len(mm) : replay_messages[s + k] = mm[k]
            /\ u = 1 => replay_messages[Len(replay_messages)]
                            = [role |-> "user", content |-> um]

\* the user turn built at the end equals a middle message, and both are in
\* the result
C14_Witness ==
    /\ ppc = "replayed"
    /\ outcome.data.last_user_message /= <<>>
    /\ \E k \in 1..Len(outcome.data.middle_messages) :
           outcome.data.middle_messages[k]
               = [role |-> "user", content |-> outcome.data.last_user_message]
    /\ Len(replay_messages) > Len(outcome.data.middle_messages)
    /\ replay_messages[Len(replay_messages)]
           = [role |-> "user", content |-> outcome.data.last_user_message]

(***************************************************************************)
(* C15.  Override priority in execute_test.                                *)
(***************************************************************************)
\* a stored name that is set: not None and not empty
IsSetName(opt) == Len(opt) > 0 /\ opt[1] /= ""

\* a stored text, list or mapping that is set: not None and not empty
IsSetValue(opt) == Len(opt) > 0 /\ DOMAIN opt[1] /= {}

\* present override first, whatever it holds; otherwise the stored value
\* when one is set, otherwise the agent's default
NameByPriority(override, stored, default) ==
    IF Len(override) > 0 THEN override
    ELSE IF IsSetName(stored) THEN stored ELSE default

ValueByPriority(override, stored, default) ==
    IF Len(override) > 0 THEN override
    ELSE IF IsSetValue(stored) THEN stored ELSE default

\* the same for model settings, where "stored" means not None
SettingsByPriority(override, stored, default) ==
    IF Len(override) > 0 THEN override
    ELSE IF Len(stored) > 0 THEN stored ELSE default

\* the same for the fields the agent has no default for
OverrideOrStored(override, stored) ==
    IF Len(override) > 0 THEN override ELSE stored

\* C15: a test runs with, for each of model name, system prompt, last user
\* message, tools and model settings, the request's override whenever one is
\* present (an empty string, an empty tool list and an empty settings mapping
\* included), and otherwise with the stored value, or the owning agent's
\* default when nothing is stored and the agent has one.
C15_PresentOverrideWins ==
    (call.op = "execute" /\ call.result.kind = "return") =>
        LET request == call.request
            tc == call.before
            run == call.result.data
        IN  /\ run.model_name =
                   NameByPriority(request.modified_model_name, <<tc.model_name>>,
                              agent.default_model_name)
            /\ run.system_prompt =
                   ValueByPriority(request.modified_system_prompt,
                              <<tc.system_prompt>>, agent.default_system_prompt)
            /\ run.user_message =
                   OverrideOrStored(request.modified_last_user_message,
                                    <<tc.last_user_message>>)
            /\ run.tools = OverrideOrStored(request.modified_tools, tc.tools)
            /\ run.model_settings =
                   SettingsByPriority(request.modified_model_settings,
                              tc.model_settings, agent.default_model_settings)

(***************************************************************************)
(* C16.  The parsed fields of a stored test case under update_test_case.   *)
(***************************************************************************)
\* the six parsed fields of a test case record or of a ParsedLLMData
Parsed(tc) == [f \in ParsedFields |-> tc[f]]

\* an update_test_case call has just returned
UpdateReturned == call.op = "update" /\ call.result.kind = "return"

\* C16 as stated: over update_test_case calls the six parsed fields change
\* only in a call that supplies raw data, and then all six are the parse of
\* the new raw data.
C16_ParsedFieldsOnlyByReparse ==
    /\ (call.op = "update" /\ Len(call.request.raw_data) = 0) =>
           Parsed(test_case) = Parsed(call.before)
    /\ (UpdateReturned /\ Len(call.request.raw_data) > 0) =>
           Parsed(test_case) =
               Parsed(parse_llm_raw_data(call.request.raw_data[1]).data)

\* the request's value for a prompt field when given, the stored one otherwise
Edited(given, stored) == IF Len(given) > 0 THEN given[1] ELSE stored

\* C16: middle_messages, tools, model_name and model_settings change only in
\* an update_test_case call that supplies raw data; in such a call all six
\* parsed fields are the parse of the new raw data and the request's
\* system_prompt and last_user_message are ignored; a call without raw data
\* sets system_prompt and last_user_message to the request's values when it
\* gives them and changes no other parsed field; a call that raises changes
\* nothing.
C16_ParsedFieldsByReparseOrPromptEdit ==
    /\ (UpdateReturned /\ Len(call.request.raw_data) > 0) =>
           Parsed(test_case) =
               Parsed(parse_llm_raw_data(call.request.raw_data[1]).data)
    /\ (UpdateReturned /\ Len(call.request.raw_data) = 0) =>
           Parsed(test_case) =
               [Parsed(call.before) EXCEPT
                  !["system_prompt"] =
                      Edited(call.request.system_prompt,
                             call.before.system_prompt),
                  !["last_user_message"] =
                      Edited(call.request.last_user_message,
                             call.before.last_user_message)]
    /\ (call.op = "update" /\ call.result.kind = "raise") =>
           test_case = call.before

\* a re-parse of a different capture in a request that also names a system
\* prompt and a last user message, both ignored
C16_Witness ==
    /\ UpdateReturned
    /\ Len(call.request.raw_data) > 0
    /\ call.request.raw_data[1] /= call.before.raw_data
    /\ Len(call.request.system_prompt) > 0
    /\ Len(call.request.last_user_message) > 0
    /\ test_case.system_prompt /= call.request.system_prompt[1]
    /\ test_case.last_user_message /= call.request.last_user_message[1]
    /\ Parsed(test_case) /= Parsed(call.before)

(***************************************************************************)
(* C17.  The model settings taken from the canonical request.              *)
(***************************************************************************)
Whitelisted ==
    {"temperature", "top_p", "parallel_tool_calls", "seed", "presence_penalty",
     "frequency_penalty"}

TokenLimitKeys == {"max_completion_tokens", "max_tokens"}

\* the keys model_settings is to have for a request
ExpectedSettingKeys(request_body) ==
    (Whitelisted \cap DOMAIN request_body)
        \cup (IF TokenLimitKeys \cap DOMAIN request_body /= {}
              THEN {"max_tokens"} ELSE {})

\* the value each of these keys is to have
ExpectedSetting(request_body, k) ==
    IF k /= "max_tokens" THEN request_body[k]
    ELSE IF "max_completion_tokens" \in DOMAIN request_body
    THEN request_body["max_completion_tokens"]
    ELSE request_body["max_tokens"]

\* C17: model_settings of a parse result holds exactly the whitelisted keys
\* present in the canonical request, with the request's values, plus
\* max_tokens taken from max_completion_tokens when that is present and from
\* max_tokens otherwise; when none of these keys is present it is None, never
\* an empty mapping.
C17_SettingsExactlyWhitelisted ==
    HasReturned =>
        LET expected == ExpectedSettingKeys(canonical)
            model_settings == outcome.data.model_settings
        IN  IF expected = {} THEN model_settings = <<>>
            ELSE /\ Len(model_settings) = 1
                 /\ DOMAIN model_settings[1] = expected
                 /\ \A k \in expected :
                        model_settings[1][k] = ExpectedSetting(canonical, k)

\* a request with both token limits, a whitelisted key and a key that is not
\* a setting
C17_Witness ==
    /\ HasReturned
    /\ TokenLimitKeys \subseteq DOMAIN canonical
    /\ canonical["max_tokens"] /= canonical["max_completion_tokens"]
    /\ {"seed", "stream"} \subseteq DOMAIN canonical
    /\ outcome.data.model_settings[1]["max_tokens"] =
           canonical["max_completion_tokens"]
    /\ "stream" \notin DOMAIN outcome.data.model_settings[1]

(***************************************************************************)
(* C18.  pydantic_ai: the dedicated instructions and an in-band system     *)
(* message.                                                                *)
(***************************************************************************)
InputMessages == Get(raw.attributes, "gen_ai.input.messages", <<>>)

SystemInstructions == Get(raw.attributes, "gen_ai.system_instructions", <<>>)

\* the entries of gen_ai.input.messages with role "system"
InBandSystem ==
    { i \in 1..Len(InputMessages) : Get(InputMessages[i], "role", "user") = "system" }

\* the last entry of gen_ai.input.messages that is not an assistant turn
LastInputTurn ==
    Greatest({ i \in 1..Len(InputMessages) :
                   Get(InputMessages[i], "role", "user") /= "assistant" })

\* a returned parse of a pydantic_ai capture with a non-empty list of
\* instructions and a system message among the input messages
BothSystemSourcesGiven ==
    /\ HasReturned
    /\ source = "pydantic_ai"
    /\ Len(SystemInstructions) > 0
    /\ InBandSystem /= {}

\* the same, with at least one instruction that carries content
BothSystemSources ==
    /\ BothSystemSourcesGiven
    /\ Len(InstructionContents(SystemInstructions)) > 0

\* system_prompt is the joined content of the instructions alone, and each
\* in-band system message stays in middle_messages at its place with its own
\* content, unless it is the last non-assistant turn, which is extracted as
\* last_user_message
InstructionsAlone ==
    LET data == outcome.data
        own(i) == convert_pydantic_ai_parts_to_content(InputMessages[i].parts)
    IN  /\ data.system_prompt = Join(InstructionContents(SystemInstructions))
        /\ Len(data.middle_messages) = Len(InputMessages) - 1
        /\ \A i \in InBandSystem :
               IF i = LastInputTurn
               THEN data.last_user_message = own(i)
               ELSE data.middle_messages[i] =
                        [role |-> "system", content |-> own(i)]

\* C18 as stated: with a non-empty gen_ai.system_instructions and a system
\* message in gen_ai.input.messages, system_prompt is the joined content of
\* the instructions and the in-band system message is an ordinary message.
C18_NonEmptyInstructionsTakePrecedence == BothSystemSourcesGiven => InstructionsAlone

\* C18: when a pydantic_ai capture has both gen_ai.system_instructions with
\* at least one instruction that carries content and a system message in
\* gen_ai.input.messages, system_prompt is the joined content of the
\* instructions alone, and each in-band system message stays in
\* middle_messages with its own content, unless it is the last non-assistant
\* turn, which is extracted as last_user_message.
C18_InstructionsTakePrecedence == BothSystemSources => InstructionsAlone

\* instructions "s" and an in-band system message "s2" before the user turn
C18_Witness ==
    /\ BothSystemSources
    /\ InBandSystem = {1}
    /\ LastInputTurn = 2
    /\ outcome.data.system_prompt = <<"s">>
    /\ outcome.data.middle_messages = <<[role |-> "system", content |-> <<"s2">>]>>

(***************************************************************************)
(* C19.  pydantic_ai: the parts of an input message.                       *)
(***************************************************************************)
\* a pydantic_ai part with its text under the key the Gemini procedure reads
TextKeyed(part) ==
    IF "content" \in DOMAIN part THEN [text |-> part.content] ELSE part

TextKeyedEntry(msg) ==
    IF "parts" \in DOMAIN msg /\ IsList(msg.parts)
    THEN [msg EXCEPT !.parts = [i \in 1..Len(msg.parts) |-> TextKeyed(msg.parts[i])]]
    ELSE msg

\* the canonical messages that come from gen_ai.input.messages
FromInputMessages ==
    LET ms == canonical.messages
        first == IF Len(InstructionContents(SystemInstructions)) > 0 THEN 1 ELSE 0
    IN  SubSeq(ms, first + 1, Len(ms))

\* the per-message procedure of the Gemini path on the input messages
ByGeminiProcedure ==
    ConvertContents([i \in 1..Len(InputMessages) |->
                         TextKeyedEntry(InputMessages[i])],
                    FreshToolCallState, <<>>)

\* C19: the canonical messages a pydantic_ai capture is converted to are
\* those the per-message procedure of the Gemini path gives for its input
\* messages, roles as they are: tool-call parts as tool_calls of the message,
\* tool-response parts as tool messages with the id of their call, parts of
\* no known shape as JSON text, no primary message for an entry with neither
\* text nor tool calls.
C19_PydanticPartsLikeGemini ==
    (source = "pydantic_ai" /\ ppc = "converted") =>
        /\ ByGeminiProcedure.ok
        /\ FromInputMessages = ByGeminiProcedure.messages

(***************************************************************************)
(* C20.  pydantic_ai: the roles of the input messages.                     *)
(***************************************************************************)
\* the capture is a pydantic_ai capture with an input message whose role is
\* not one of system, user, assistant, tool
HasForeignRole ==
    /\ source = "pydantic_ai"
    /\ \E i \in 1..Len(InputMessages) :
           Get(InputMessages[i], "role", "user") \notin OpenAIRoles

\* C20: a pydantic_ai capture with an input message whose role is outside
\* {system, user, assistant, tool} is rejected as an invalid capture: no
\* canonical request is built from it, no result is returned, and the call
\* ends in the "Invalid raw data format" error.
C20_ForeignRoleRejected ==
    HasForeignRole =>
        /\ canonical = EmptyDict
        /\ outcome.kind /= "return"
        /\ ParseFinished => outcome = Raised("ValueError", "Invalid raw data format")

(***************************************************************************)
(* C27.  The order of the conversation output.                             *)
(***************************************************************************)
\* role and content of a canonical message
RoleAndContent(m) == <<m.role, Get(m, "content", <<>>)>>

RECURSIVE RolesAndContents(_)
RolesAndContents(ms) ==
    IF Len(ms) = 0 THEN <<>>
    ELSE <<RoleAndContent(Head(ms))>> \o RolesAndContents(Tail(ms))

RECURSIVE ToolBlock(_)
ToolBlock(responses) ==
    IF Len(responses) = 0 THEN <<>>
    ELSE << <<"tool", Head(responses)>> >> \o ToolBlock(Tail(responses))

RECURSIVE ExpectedOutput(_)
\* entry by entry: the primary message when the entry has text or calls,
\* then one tool message per function response in the order of the parts
ExpectedOutput(cs) ==
    IF Len(cs) = 0 THEN <<>>
    ELSE LET e == ExpectedItems(Head(cs).parts)
             primary == IF Len(e.segments) + Len(e.calls) > 0
                        THEN << <<MapRole(Head(cs).role), Join(e.segments)>> >>
                        ELSE <<>>
         IN  primary \o ToolBlock(e.responses) \o ExpectedOutput(Tail(cs))

\* C27: the conversation output lists, for the content entries converted so
\* far and in their order, the primary message of the entry (when it has
\* one) followed by the entry's standalone tool messages in the order of
\* their parts.
C27_PrimaryThenToolMessages ==
    RolesAndContents(openai_messages) = ExpectedOutput(ClosedEntries)

\* an entry with a function response before its text, then a second entry:
\* the message of the first entry, its tool message, the second entry
C27_Witness ==
    /\ gpc = "converted"
    /\ contents = << [role |-> "user", parts |-> << RespF, [text |-> <<"a">>] >>],
                     [role |-> "model", parts |-> << CallF >>] >>
    /\ Len(openai_messages) = 3
    /\ openai_messages[1].role = "user"
    /\ openai_messages[2].role = "tool"
    /\ openai_messages[3].role = "assistant"

\* ---------------------------------------------------------------------
\* C28: a pending call is consumed at most once.

\* the ids queued under function name f
QueuedIds(state, f) ==
    { QueueOf(state, f)[i] : i \in 1..Len(QueueOf(state, f)) }

\* the ids the by-id index holds for function name f
IndexedIds(state, f) ==
    { id \in DOMAIN state.pending : state.pending[id] = f }



PendingIndexesAgree ==
    \A f \in DOMAIN tool_call_state.pending_by_name \cup FunctionNames :
        QueuedIds(tool_call_state, f) = IndexedIds(tool_call_state, f)

ToolMessageIdsDistinct ==
    \A i, j \in 1..Len(AllToolMessages) :
        (/\ i /= j
         /\ "tool_call_id" \in DOMAIN AllToolMessages[i]
         /\ "tool_call_id" \in DOMAIN AllToolMessages[j])
            => AllToolMessages[i].tool_call_id /= AllToolMessages[j].tool_call_id

\* C28: after any sequence of function-call and function-response parts in
\* one pass the two pending indexes agree (an id is queued under a function
\* name exactly when the by-id index holds it with that name) and no two
\* emitted tool messages carry the same tool_call_id.
C28_PendingConsumedAtMostOnce ==
    PendingIndexesAgree /\ ToolMessageIdsDistinct

\* the same statement for the passes whose tool-call ids are distinct
C28_AtMostOnceWhenIdsDistinct ==
    C6_UniqueToolCallIds => C28_PendingConsumedAtMostOnce

\* ---------------------------------------------------------------------
\* C30: the inline assembly of execute_llm_test and build_replay_messages.

\* an execute_test call that reached execute_llm_test
ExecutionReachedModelCall ==
    call.op = "execute" /\ call.result.kind = "return"

\* build_replay_messages of the arguments execute_llm_test was called with
BuiltFromSameArguments ==
    build_replay_messages(TextOrEmpty(call.result.data.system_prompt),
                          call.result.data.middle_messages,
                          TextOrEmpty(call.result.data.user_message))

\* C30: the replay list execute_llm_test assembles inline equals
\* build_replay_messages of the same arguments; the only difference is that
\* execute_llm_test raises ValueError instead of going on when the list is
\* empty.
C30_InlineAssemblyEqualsBuilder ==
    ExecutionReachedModelCall =>
        IF BuiltFromSameArguments = <<>>
        THEN call.sent = Raised("ValueError", "No messages to send to LLM")
        ELSE call.sent = Returned(BuiltFromSameArguments)

\* a replay with the overridden system prompt, stored middle messages and
\* the overridden last user message
C30_Witness ==
    /\ ExecutionReachedModelCall
    /\ call.sent.kind = "return"
    /\ Len(call.sent.data) >= 3
    /\ call.sent.data[1] = [role |-> "system", content |-> <<"p">>]
    /\ call.sent.data[Len(call.sent.data)] = [role |-> "user", content |-> <<"q">>]

C30_EmptyListRaises ==
    /\ ExecutionReachedModelCall
    /\ call.sent.kind = "raise"

\* ---------------------------------------------------------------------
\* C24: the counts and the status stored when a regression run finishes.

\* the last execute_regression call ran its cases and stored the outcome
RunFinished == last_dispatch = "finished"

\* the cases that did not succeed: failed results and raised exceptions
NotSucceeded == CountStatus(results, "failed") + Len(execution_errors)

C26_BoundedFanOut ==
    /\ Cardinality(InProgress) <= MAX_CONCURRENCY
    /\ semaphore = MAX_CONCURRENCY - Cardinality(InProgress)
    /\ (rpc = "gather" /\ Queued /= {})
           => (Acquirable(semaphore) \/ InProgress /= {})
    /\ last_dispatch \in {"finished", "raised"}
           => (/\ AllDone
               /\ Len(results) + Len(execution_errors) = Len(cases))

\* a sixth case had to wait for a slot; the case that gave it up raised, and
\* all five slots are taken again
C26_Witness ==
    /\ rpc = "gather"
    /\ Len(cases) = MAX_CONCURRENCY + 1
    /\ cases[MAX_CONCURRENCY + 1] = "running"
    /\ Cardinality(InProgress) = MAX_CONCURRENCY
    /\ semaphore = 0
    /\ Len(execution_errors) = 1 /\ Len(results) = 0

\* ---------------------------------------------------------------------
\* C29: terminal regression states are final.

IsTerminal(r) == r.status \in {"completed", "failed"} \/ r.is_deleted

\* status, counts, error_message and timestamps of a record
Frame(r) ==
    <<r.status, r.total_count, r.success_count, r.failed_count,
      r.passed_count, r.declined_count, r.unknown_count, r.error_message,
      r.started_at, r.completed_at>>

\* C29: once the record has status completed or failed, or is soft-deleted,
\* a later execute_regression call returns without running any test case
\* and leaves status, counts, error_message and timestamps unchanged;
\* execution only starts from status pending or running.
C29_TerminalIsFinal ==
    [][ /\ (rpc = "atrest" /\ IsTerminal(record))
            => (/\ Frame(record') = Frame(record)
                /\ rpc' = "atrest"
                /\ cases' = cases /\ results' = results
                /\ execution_errors' = execution_errors)
        /\ (rpc /= "gather" /\ rpc' = "gather")
            => (record.status \in {"pending", "running"} /\ ~record.is_deleted)
      ]_vars

\* a second dispatch after a run that ended as failed has been skipped
C29_Witness ==
    /\ last_dispatch = "skipped"
    /\ dispatches = 2
    /\ record.status = "failed"
    /\ record.success_count + record.failed_count = record.total_count
    /\ record.total_count > 0

\* ---------------------------------------------------------------------
\* C21, C22: the conversion of parameter schemas.

RECURSIVE AlreadyLowercase(_)
\* every string-valued type of every schema node is in lower case
AlreadyLowercase(s) ==
    IF ~IsDict(s) THEN TRUE
    ELSE /\ ("type" \in DOMAIN s /\ IsJsonString(s.type))
                => s.type.chars = StrLower(s.type.chars)
         /\ ("properties" \in DOMAIN s /\ IsDict(s.properties))
                => \A p \in DOMAIN s.properties : AlreadyLowercase(s.properties[p])
         /\ ("items" \in DOMAIN s /\ IsDict(s.items))
                => AlreadyLowercase(s.items)

\* C21: the conversion of parameter schemas is idempotent: for every schema
\* over type names in any letter case, converting the converted schema
\* gives the converted schema again, and converting a schema whose type
\* names are already in lower case gives an equal schema.
C21_TypeConversionIdempotent ==
    /\ tpc = "twice" => twice = once
    /\ (tpc \in {"once", "twice"} /\ AlreadyLowercase(schema)) => once = schema

\* an array of objects with upper- and mixed-case type names: the first
\* conversion changed it, the second changed nothing
C21_Witness ==
    /\ tpc = "twice"
    /\ schema = ArrayOf(ObjectOf([type |-> JsonString(<<"E", "N", "U", "M">>)]))
    /\ once /= schema
    /\ twice = once
    /\ once.items.properties.city.type.chars = <<"e", "n", "u", "m">>

\* a schema in lower case throughout comes back equal
C21_LowercaseWitness ==
    /\ tpc = "once"
    /\ schema = [type |-> JsonString(<<"o", "b", "j", "e", "c", "t">>),
                 properties |-> JsonList(<<>>)]
    /\ once = schema

RECURSIVE MappedNodeByNode(_, _)
\* the output has the keys of the input; at every schema node reached
\* through properties and items a string-valued type is the input's type in
\* lower case and every other value is the input's value
MappedNodeByNode(in, out) ==
    IF ~IsDict(in) THEN out = in
    ELSE /\ IsDict(out)
         /\ DOMAIN out = DOMAIN in
         /\ \A key \in DOMAIN in :
               IF key = "type" /\ IsJsonString(in[key])
               THEN out[key] = JsonString(StrLower(in[key].chars))
               ELSE IF key = "properties" /\ IsDict(in[key])
               THEN /\ IsDict(out[key])
                    /\ DOMAIN out[key] = DOMAIN in[key]
                    /\ \A p \in DOMAIN in[key] :
                          MappedNodeByNode(in[key][p], out[key][p])
               ELSE IF key = "items" /\ IsDict(in[key])
               THEN MappedNodeByNode(in[key], out[key])
               ELSE out[key] = in[key]

\* C22: for every parameter schema nested through properties and items the
\* converted schema has the tree shape and the keys of the input, every
\* string-valued type at every schema node is mapped to its lower-case
\* name (the six Gemini type names in any case; unknown names lower-cased)
\* and every other key's value is copied unchanged.
C22_TypesLoweredAtEveryNode ==
    tpc \in {"once", "twice"} => MappedNodeByNode(schema, once)

\* an object in an object: the innermost mixed-case type is lowered, the
\* description, the enum and the required list are copied
C22_Witness ==
    /\ tpc = "once"
    /\ schema = ObjectOf(ObjectOf([type |-> JsonString(<<"S", "T", "R", "I", "N", "G">>),
                                   description |-> SomeDescription,
                                   enum |-> JsonList(<<JsonString(<<"N", "Y", "C">>)>>)]))
    /\ once.properties.city.properties.city.type.chars = <<"s", "t", "r", "i", "n", "g">>
    /\ once.properties.city.properties.city.description = SomeDescription
    /\ once.properties.city.properties.city.enum.items[1].chars = <<"N", "Y", "C">>
    /\ once.properties.city.required = schema.properties.city.required

\* ---------------------------------------------------------------------
\* C23: the formatted response.

RECURSIVE TextOfParts(_)
\* the content of the text parts, concatenated in response order
TextOfParts(ps) ==
    IF Len(ps) = 0 THEN <<>>
    ELSE (IF Head(ps).kind = "TextPart" THEN Head(ps).content ELSE <<>>)
             \o TextOfParts(Tail(ps))

IsToolCallPart(p) == p.kind = "ToolCallPart"

\* the tool-call parts in response order
ToolCallPartsOf(ps) == SelectSeq(ps, IsToolCallPart)

\* no text part that is not empty and no tool-call part
NothingToShow(ps) ==
    /\ \A k \in 1..Len(ps) : ps[k].kind = "TextPart" => ps[k].content = <<>>
    /\ ToolCallPartsOf(ps) = <<>>

RECURSIVE ListedCalls(_)
\* the entries of a tool-call section as it reads: number, name and id
ListedCalls(f) ==
    IF Len(f) < 8 THEN <<>>
    ELSE IF Head(f) = "Tool Call "
    THEN << <<f[2], f[5], f[8]>> >> \o ListedCalls(Tail(f))
    ELSE ListedCalls(Tail(f))

\* the tool calls of the response, numbered from 1 in response order
NumberedCalls(ps) ==
    [i \in 1..Len(ToolCallPartsOf(ps)) |->
        <<NumberText(i), ToolCallPartsOf(ps)[i].tool_name,
          ToolCallPartsOf(ps)[i].tool_call_id>>]

\* what follows the text in the formatted response
AfterText(f, ps) == SubSeq(f, Len(TextOfParts(ps)) + 1, Len(f))

\* the text parts concatenated in response order, followed exactly when
\* there is a tool-call part by a section under the "=== Tool Calls ==="
\* heading that lists every tool call once, numbered from 1 in response order
TextThenToolCallSection(f, ps) ==
    /\ Len(f) >= Len(TextOfParts(ps))
    /\ SubSeq(f, 1, Len(TextOfParts(ps))) = TextOfParts(ps)
    /\ IF ToolCallPartsOf(ps) = <<>> THEN AfterText(f, ps) = <<>>
       ELSE /\ \E k \in 1..2 :
                  /\ k <= Len(AfterText(f, ps))
                  /\ AfterText(f, ps)[k] = "=== Tool Calls ===\n"
                  /\ \A j \in 1..(k - 1) : AfterText(f, ps)[j] = "\n\n"
            /\ ListedCalls(AfterText(f, ps)) = NumberedCalls(ps)

\* C23 as stated: the formatted response is the literal "[No response
\* content or tool calls]" if and only if the model response has no
\* non-empty text part and no tool-call part; otherwise it is the text
\* parts concatenated in response order, followed iff at least one
\* tool-call part exists by a "=== Tool Calls ===" section that lists every
\* tool call exactly once, numbered from 1 in response order.
C23_PlaceholderIffNothingToShow ==
    fpc = "formatted" =>
        /\ (formatted_response = Placeholder) <=> NothingToShow(model_response)
        /\ ~NothingToShow(model_response)
               => TextThenToolCallSection(formatted_response, model_response)

\* C23, amended: the formatted response is the literal when the model
\* response has no non-empty text part and no tool-call part; otherwise it
\* is the text parts concatenated in response order, followed iff at least
\* one tool-call part exists by the section that lists every tool call
\* exactly once, numbered from 1 in response order.
C23_PlaceholderWhenNothingToShow ==
    fpc = "formatted" =>
        /\ NothingToShow(model_response) => formatted_response = Placeholder
        /\ ~NothingToShow(model_response)
               => TextThenToolCallSection(formatted_response, model_response)

\* a tool call, then text, then another tool call: the text comes first,
\* the two calls are listed as 1 and 2 in response order
C23_Witness ==
    /\ fpc = "formatted"
    /\ Len(model_response) = 3
    /\ model_response[1].kind = "ToolCallPart" /\ model_response[1].tool_name = "g"
    /\ model_response[2] = TextPart(<<"a">>)
    /\ model_response[3].kind = "ToolCallPart" /\ model_response[3].tool_name = "f"
    /\ SubSeq(formatted_response, 1, 3) = <<"a", "\n\n", "=== Tool Calls ===\n">>
    /\ Len(ListedCalls(formatted_response)) = 2
    /\ ListedCalls(formatted_response)[1][2] = "g"

\* nothing to show: the literal is returned
C23_PlaceholderWitness ==
    /\ fpc = "formatted"
    /\ model_response = <<TextPart(<<>>), ThinkingPart>>
    /\ formatted_response = Placeholder

\* ---------------------------------------------------------------------
\* C25: conversion passes do not share state.

\* what converting the first n entries of cs alone yields
AloneConverted(cs, n) == ConvertContents(SubSeq(cs, 1, n), FreshToolCallState, <<>>)

RECURSIVE StateAfter(_, _)
\* the correlation state after the entries cs, started from state
StateAfter(cs, state) ==
    IF Len(cs) = 0 THEN state
    ELSE StateAfter(Tail(cs),
                    ConvertParts(FreshLocals(state),
                                 Get(Head(cs), "parts", <<>>)).state)

\* C25: every Gemini conversion starts from a correlation state of its own
\* (counter = 1, both pending indexes empty) and has none once it has
\* returned, and whatever the other replay tasks convert meanwhile, the
\* canonical messages and tool-call ids of a call, and its correlation
\* state, are at every moment those of converting its contents alone.
C25_PassesShareNoState ==
    \A task \in Tasks :
        /\ (passes[task].pc = "converting" /\ passes[task].converted = 0)
               => passes[task].state = FreshToolCallState
        /\ passes[task].pc = "converting"
               => passes[task].state
                      = StateAfter(SubSeq(passes[task].contents, 1,
                                          passes[task].converted),
                                   FreshToolCallState)
        /\ passes[task].pc \in {"called", "returned"}
               => passes[task].state = NoState
        /\ passes[task].openai_messages
               = AloneConverted(passes[task].contents,
                                passes[task].converted).messages

\* both tasks are in the middle of a pass, each has issued "tool_call_1" from
\* a counter of its own, and one of them has answered it already
C25_Witness ==
    /\ passes["A"].pc = "converting" /\ passes["B"].pc = "converting"
    /\ passes["A"].contents = << [role |-> "model", parts |-> <<CallF>>],
                                 [role |-> "user", parts |-> <<RespF>>] >>
    /\ passes["B"].contents = << [role |-> "model", parts |-> <<CallF>>],
                                 [role |-> "model", parts |-> <<CallG>>] >>
    /\ passes["A"].converted = 2 /\ passes["B"].converted = 1
    /\ passes["A"].openai_messages[2].tool_call_id = "tool_call_1"
    /\ passes["B"].openai_messages[1].tool_calls[1].id = "tool_call_1"
    /\ passes["B"].state.counter = 2
    /\ DOMAIN passes["A"].state.pending = {}
    /\ DOMAIN passes["B"].state.pending = {"tool_call_1"}

====
